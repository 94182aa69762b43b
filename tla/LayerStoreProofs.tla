---------------------------- MODULE LayerStoreProofs ----------------------------
(***************************************************************************)
(* Reference counting in the layer store, for any goroutines, any chains   *)
(* of layers, any writable layers, and all faults: disk and driver errors  *)
(* at every step, and the death of the daemon at any moment.               *)
(*                                                                         *)
(* StoreInv says that the count of every layer, in the map or not, is the  *)
(* number of its handles, of the layers and mounts on it, and of the calls *)
(* that have retained it (Counted); that a layer out of the map counts     *)
(* zero; and what every call holds at the place where it is (CallOK).      *)
(*                                                                         *)
(* DiskMatches relates memory and disk: what the next start loads.  Two    *)
(* sections are about the driver's data: HeldInv, who has which of the     *)
(* driver's layers, and RestInv, that nothing else is in the driver and    *)
(* what it was made on.  The last ones prove, action by action, that the   *)
(* store implements LayerPromise.                                          *)
(***************************************************************************)
EXTENDS LayerStore, FiniteSetTheorems, SequenceTheorems, NaturalsInduction, WellFoundedInduction, TLAPS

Ids == 0..MaxData

\* What a goroutine's call may look like.
Calls ==
  [pc : {"idle", "dec", "rmdata", "rmmeta", "create", "apply", "commit", "cleanup",
         "init", "rw", "save", "rmrw", "rminit", "rmmount"},
   l : Bases, m : SUBSET Mounts, new : Ids, init : Ids, cur : Bases]

Files == [rw : Ids, init : Ids, parent : Bases]

\* A call that is like o has retained c.
Retains(o, c) == o.cur = c /\ o.pc \notin {"idle", "rmdata", "rmmeta"}

\* Layers and mounts on c.
Children(c) == {d \in layerMap : parent[d] = c}
MountsOn(c) == {m \in Mounts : mounts[m].in /\ mounts[m].parent = c}

\* TypeOK in parts.
MemoryType ==
  /\ layerMap \subseteq Chains
  /\ count \in [Chains -> Nat]
  /\ refs \in [Chains -> SUBSET Procs]
  /\ cache \in [Chains -> Ids]
  /\ parent \in [Chains -> Bases]
MountsType == mounts \in [Mounts -> [in : BOOLEAN, parent : Bases, rw : Ids, init : Ids, refs : SUBSET Procs]]
CallsType ==
  /\ op \in [Procs -> Calls]
  /\ layerL \in Procs \cup {NoProc} /\ mountL \in Procs \cup {NoProc}
DiskType == meta \in [Chains -> Metas] /\ mountMeta \in [Mounts -> Files]
DataType == driver \subseteq Data /\ base \in [Data -> Ids]

\* referenceCount is exact, and zero for a layer that is not in the map.
Counted(c) ==
  /\ count[c] = Cardinality(refs[c]) + Cardinality(Children(c)) + Cardinality(MountsOn(c))
                  + Cardinality(Retainers(c))
  /\ c \notin layerMap => count[c] = 0

\* The parent file of a layer names the layer below, or is missing.
MetaOK(c) == meta[c].parent \in {<<>>, Front(c)}

\* A mount that is not in the map is nothing.
MountOK(m) == ~mounts[m].in => mounts[m] = NoMount

\* What call p has: a deletion owns layerL and a layer nobody retains; a registration its
\* parent, and no handle yet; making or deleting a mount mountL and the mount.
CallOK(p) ==
  LET o == op[p]
  IN /\ o.pc \in {"idle", "rmrw", "rminit", "rmmount"} => o.cur = <<>>
     /\ o.pc \in {"dec", "rmdata", "rmmeta", "init", "rw", "save"} => o.cur \in Chains
     /\ o.pc \in {"rmdata", "rmmeta"} => layerL = p /\ o.cur \in layerMap /\ count[o.cur] = 0
     /\ o.pc \in {"create", "apply", "commit", "cleanup"} => o.l \in Chains /\ o.cur = Front(o.l)
     /\ o.pc \in {"create", "apply", "commit"} => p \notin refs[o.l]
     /\ o.pc \in {"init", "rw", "save"} =>
          mountL = p /\ \E m \in Mounts : o.m = {m} /\ ~mounts[m].in
     /\ o.pc \in {"rmrw", "rminit", "rmmount"} =>
          mountL = p /\ \E m \in Mounts : o.m = {m} /\ mounts[m].in

Counts == \A c \in Chains : Counted(c)
Parents == \A c \in Chains : MetaOK(c)
NoStaleMount == \A m \in Mounts : MountOK(m)
CallsOK == \A p \in Procs : CallOK(p)

StoreInv ==
  /\ MemoryType /\ MountsType /\ CallsType /\ DiskType /\ DataType
  /\ panicked = FALSE
  /\ Counts /\ Parents /\ NoStaleMount /\ CallsOK

-------------------------------------------------------------------------------
(* Chains, and what can be loaded                                              *)

\* The layer below: none, or one that may be registered too.
LEMMA ChainFacts ==
  ASSUME NEW c \in Chains
  PROVE  /\ c \in Seq(Diffs) /\ c # <<>> /\ Len(c) \in Nat \ {0}
         /\ Front(c) = SubSeq(c, 1, Len(c) - 1)
         /\ Len(c) = 1 => Front(c) = <<>>
         /\ Len(c) > 1 => Front(c) \in Chains
         /\ Front(c) \in Bases
         /\ <<>> \notin Chains
  <1>1. c \in Seq(Diffs) /\ c # <<>> /\ <<>> \notin Chains
    BY ChainsAssumption
  <1>2. Len(c) \in Nat \ {0}
    BY <1>1, EmptySeq
  <1>3. Front(c) = SubSeq(c, 1, Len(c) - 1)
    BY DEF Front
  <1>4. Len(c) = 1 => Front(c) = <<>>
    BY <1>2, <1>3, SubSeqEmpty
  <1>5. ASSUME Len(c) > 1 PROVE Front(c) \in Chains
    <2>1. Len(c) - 1 \in 1..Len(c)
      BY <1>2, <1>5
    <2> QED BY <2>1, <1>3, ChainsAssumption
  <1>6. Len(c) = 1 \/ Len(c) > 1
    BY <1>2
  <1> QED BY <1>1, <1>2, <1>3, <1>4, <1>5, <1>6 DEF Bases

\* The layer below is a prefix.
LEMMA FrontIsPrefix ==
  ASSUME NEW c \in Chains, Front(c) \in Chains
  PROVE  /\ Len(c) > 1 /\ Len(Front(c)) = Len(c) - 1
         /\ \A n \in 1..(Len(c) - 1) : SubSeq(Front(c), 1, n) = SubSeq(c, 1, n)
  <1> DEFINE f == Front(c)
  <1>1. c \in Seq(Diffs) /\ Len(c) \in Nat \ {0} /\ f = SubSeq(c, 1, Len(c) - 1)
    BY ChainFacts
  <1>2. Len(c) > 1
    <2>1. <<>> \notin Chains /\ (Len(c) = 1 => Front(c) = <<>>)
      BY ChainFacts
    <2>2. PICK l \in Nat \ {0} : l = Len(c)
      BY <1>1
    <2>3. l # 1
      BY <2>1, <2>2
    <2>4. l > 1
      BY <2>3
    <2> QED BY <2>2, <2>4
  <1>3. Len(f) = Len(c) - 1
    <2>1. \A i \in 1..(Len(c) - 1) : c[i] \in Diffs
      BY <1>1, ElementOfSeq
    <2>2. Len(SubSeq(c, 1, Len(c) - 1)) = Len(c) - 1
      BY <1>1, <1>2, <2>1, SubSeqProperties
    <2> QED BY <2>2, <1>1
  <1>4. \A n \in 1..(Len(c) - 1) : SubSeq(f, 1, n) = SubSeq(c, 1, n)
    <2> TAKE n \in 1..(Len(c) - 1)
    <2>1. 1 \in 1..Len(c) /\ Len(c) - 1 \in 1..Len(c)
      BY <1>1, <1>2
    <2>2. 1 \in 1..((Len(c) - 1) - 1 + 1) /\ n \in 1..((Len(c) - 1) - 1 + 1)
      BY <1>1, <1>2
    <2>3. SubSeq(SubSeq(c, 1, Len(c) - 1), 1, n) = SubSeq(c, 1 + 1 - 1, 1 + n - 1)
      BY <1>1, <2>1, <2>2, SubSeqOfSubSeq
    <2>4. 1 + 1 - 1 = 1 /\ 1 + n - 1 = n
      OBVIOUS
    <2> QED BY <2>3, <2>4, <1>1
  <1> QED BY <1>2, <1>3, <1>4

\* A layer that is loaded with a parent file has its parent loaded.
LEMMA ParentLoadable ==
  ASSUME NEW mt, NEW c \in Chains, Loadable(mt, c), mt[c].parent # <<>>
  PROVE  Front(c) \in Chains /\ Loadable(mt, Front(c))
  <1> DEFINE f == Front(c)
  <1>1. c \in Seq(Diffs) /\ Len(c) \in Nat \ {0} /\ f = SubSeq(c, 1, Len(c) - 1)
    BY ChainFacts
  <1>2. PICK k \in 1..Len(c) :
          /\ mt[SubSeq(c, 1, k)].parent = <<>>
          /\ \A n \in k..Len(c) : mt[SubSeq(c, 1, n)].state = "full"
          /\ \A n \in k + 1 .. Len(c) : mt[SubSeq(c, 1, n)].parent # <<>>
    BY DEF Loadable
  <1>3. k # Len(c)
    BY <1>1, <1>2, SubSeqFull
  <1>4. Len(c) > 1 /\ k \in 1..(Len(c) - 1)
    BY <1>1, <1>3
  <1>5. f \in Chains
    BY <1>4, ChainFacts
  <1>6. f \in Seq(Diffs) /\ Len(f) = Len(c) - 1
    BY <1>5, ChainFacts, FrontIsPrefix
  <1>7. \A n \in 1..(Len(c) - 1) : SubSeq(f, 1, n) = SubSeq(c, 1, n)
    BY <1>5, FrontIsPrefix
  <1>8. /\ k \in 1..Len(f)
        /\ mt[SubSeq(f, 1, k)].parent = <<>>
        /\ \A n \in k..Len(f) : mt[SubSeq(f, 1, n)].state = "full"
        /\ \A n \in k + 1 .. Len(f) : mt[SubSeq(f, 1, n)].parent # <<>>
    <2>1. k \in 1..Len(f) /\ SubSeq(f, 1, k) = SubSeq(c, 1, k)
      BY <1>1, <1>4, <1>6, <1>7
    <2>2. \A n \in k..Len(f) : n \in k..Len(c) /\ SubSeq(f, 1, n) = SubSeq(c, 1, n)
      BY <1>1, <1>4, <1>6, <1>7
    <2>3. \A n \in k + 1 .. Len(f) : n \in k + 1 .. Len(c) /\ SubSeq(f, 1, n) = SubSeq(c, 1, n)
      BY <1>1, <1>4, <1>6, <1>7
    <2> QED BY <1>2, <2>1, <2>2, <2>3
  <1> QED BY <1>5, <1>8 DEF Loadable

-------------------------------------------------------------------------------
(* Counting                                                                    *)

\* The four sets that a count adds up are finite.
LEMMA Finite ==
  ASSUME MemoryType
  PROVE  \A c \in Chains : /\ IsFiniteSet(refs[c]) /\ IsFiniteSet(Children(c))
                           /\ IsFiniteSet(MountsOn(c)) /\ IsFiniteSet(Retainers(c))
                           /\ Cardinality(refs[c]) \in Nat /\ Cardinality(Children(c)) \in Nat
                           /\ Cardinality(MountsOn(c)) \in Nat /\ Cardinality(Retainers(c)) \in Nat
  <1> SUFFICES ASSUME NEW c \in Chains
               PROVE  /\ IsFiniteSet(refs[c]) /\ IsFiniteSet(Children(c))
                      /\ IsFiniteSet(MountsOn(c)) /\ IsFiniteSet(Retainers(c))
    BY FS_CardinalityType
  <1>1. refs[c] \in SUBSET Procs /\ Children(c) \in SUBSET Chains
    BY DEF MemoryType, Children
  <1>2. MountsOn(c) \in SUBSET Mounts /\ Retainers(c) \in SUBSET Procs
    BY DEF MountsOn, Retainers
  <1> QED BY <1>1, <1>2, FiniteAssumption, FS_Subset

\* One element more, or one less.
LEMMA OneMore ==
  ASSUME NEW S, NEW x, IsFiniteSet(S), x \notin S
  PROVE  Cardinality(S \cup {x}) = Cardinality(S) + 1
  BY FS_AddElement

LEMMA OneLess ==
  ASSUME NEW S, NEW x, IsFiniteSet(S), x \in S
  PROVE  Cardinality(S \ {x}) = Cardinality(S) - 1
  BY FS_RemoveElement

\* A layer that nobody retains has no handle, and nothing is on it; a layer that
\* something is on is in the map.
LEMMA CountFacts ==
  ASSUME MemoryType, Counts, NEW c \in Chains
  PROVE  /\ count[c] \in Nat
         /\ count[c] = Cardinality(refs[c]) + Cardinality(Children(c)) + Cardinality(MountsOn(c))
                         + Cardinality(Retainers(c))
         /\ count[c] = 0 => /\ refs[c] = {} /\ Children(c) = {} /\ MountsOn(c) = {}
                            /\ Retainers(c) = {}
         /\ count[c] # 0 => c \in layerMap
         /\ count[c] = 1 /\ Retainers(c) # {} => refs[c] = {}
  <1>1. /\ count[c] = Cardinality(refs[c]) + Cardinality(Children(c)) + Cardinality(MountsOn(c))
                         + Cardinality(Retainers(c))
        /\ c \notin layerMap => count[c] = 0
    BY DEF Counts, Counted
  <1>2. count[c] \in Nat
    BY DEF MemoryType
  <1>3. /\ IsFiniteSet(refs[c]) /\ IsFiniteSet(Children(c))
        /\ IsFiniteSet(MountsOn(c)) /\ IsFiniteSet(Retainers(c))
        /\ Cardinality(refs[c]) \in Nat /\ Cardinality(Children(c)) \in Nat
        /\ Cardinality(MountsOn(c)) \in Nat /\ Cardinality(Retainers(c)) \in Nat
    BY Finite
  <1>4. /\ Cardinality(refs[c]) = 0 => refs[c] = {}
        /\ Cardinality(Children(c)) = 0 => Children(c) = {}
        /\ Cardinality(MountsOn(c)) = 0 => MountsOn(c) = {}
        /\ Cardinality(Retainers(c)) = 0 => Retainers(c) = {}
    BY <1>3, FS_EmptySet
  <1>5. \A i, j, k, l \in Nat : /\ i + j + k + l = 0 => i = 0 /\ j = 0 /\ k = 0 /\ l = 0
                                /\ i + j + k + l = 1 /\ l # 0 => i = 0
    OBVIOUS
  <1>6. Retainers(c) # {} => Cardinality(Retainers(c)) # 0
    BY <1>4
  <1>7. count[c] = 0 => /\ Cardinality(refs[c]) = 0 /\ Cardinality(Children(c)) = 0
                        /\ Cardinality(MountsOn(c)) = 0 /\ Cardinality(Retainers(c)) = 0
    BY <1>1, <1>3, <1>5
  <1>8. count[c] = 1 /\ Retainers(c) # {} => Cardinality(refs[c]) = 0
    BY <1>1, <1>3, <1>5, <1>6
  <1> QED BY <1>1, <1>2, <1>4, <1>7, <1>8

-------------------------------------------------------------------------------
(* Calls and locks                                                             *)

\* A call of one goroutine goes on: who retains what.
LEMMA NewCall ==
  ASSUME CallsType, NEW p \in Procs, NEW o \in Calls, op' = [op EXCEPT ![p] = o]
  PROVE  /\ op' \in [Procs -> Calls]
         /\ op'[p] = o
         /\ \A q \in Procs : q # p => op'[q] = op[q]
         /\ \A c \in Chains : Retainers(c)' = IF Retains(o, c) THEN Retainers(c) \cup {p}
                                              ELSE Retainers(c) \ {p}
         /\ \A c \in Chains : p \in Retainers(c) <=> Retains(op[p], c)
  <1>1. op \in [Procs -> Calls]
    BY DEF CallsType
  <1>2. /\ op' \in [Procs -> Calls]
        /\ op'[p] = o
        /\ \A q \in Procs : q # p => op'[q] = op[q]
    BY <1>1
  <1>3. \A c : /\ Retainers(c) = {q \in Procs : Retains(op[q], c)}
               /\ Retainers(c)' = {q \in Procs : Retains(op'[q], c)}
    BY DEF Retainers, Retains
  <1>4. ASSUME NEW c PROVE Retainers(c)' = IF Retains(o, c) THEN Retainers(c) \cup {p} ELSE Retainers(c) \ {p}
    <2> HIDE DEF Retainers
    <2>1. CASE Retains(o, c)
      BY <2>1, <1>2, <1>3
    <2>2. CASE ~Retains(o, c)
      BY <2>2, <1>2, <1>3
    <2> QED BY <2>1, <2>2
  <1>5. \A c : p \in Retainers(c) <=> Retains(op[p], c)
    BY <1>3
  <1> QED BY <1>2, <1>4, <1>5

LEMMA RetainersSame ==
  ASSUME CallsType, NEW p \in Procs, NEW o \in Calls, op' = [op EXCEPT ![p] = o],
         \A c \in Chains : Retains(o, c) <=> Retains(op[p], c)
  PROVE  \A c \in Chains : Retainers(c)' = Retainers(c)
  <1> TAKE c \in Chains
  <1>1. Retainers(c)' = IF Retains(o, c) THEN Retainers(c) \cup {p} ELSE Retainers(c) \ {p}
    BY NewCall
  <1>2. p \in Retainers(c) <=> Retains(o, c)
    BY NewCall
  <1> HIDE DEF Retainers, Retains
  <1> QED BY <1>1, <1>2

\* What a call has when another one makes a step.
LEMMA OthersKeep ==
  ASSUME CallsOK, NEW q \in Procs, op'[q] = op[q],
         layerL = q =>
           /\ layerL' = q
           /\ \A c \in Chains : c \in layerMap /\ count[c] = 0 => c \in layerMap' /\ count'[c] = 0,
         mountL = q => mountL' = q /\ (\A m \in Mounts : mounts'[m].in = mounts[m].in),
         \A c \in Chains : q \in refs'[c] => q \in refs[c]
  PROVE  CallOK(q)'
  <1> DEFINE o == op[q]
  <1>1. CallOK(q)
    BY DEF CallsOK
  <1>2. /\ o.pc \in {"idle", "rmrw", "rminit", "rmmount"} => o.cur = <<>>
        /\ o.pc \in {"dec", "rmdata", "rmmeta", "init", "rw", "save"} => o.cur \in Chains
        /\ o.pc \in {"create", "apply", "commit", "cleanup"} => o.l \in Chains /\ o.cur = Front(o.l)
    BY <1>1 DEF CallOK
  <1>3. o.pc \in {"rmdata", "rmmeta"} => layerL' = q /\ o.cur \in layerMap' /\ count'[o.cur] = 0
    BY <1>1, <1>2 DEF CallOK
  <1>4. o.pc \in {"create", "apply", "commit"} => q \notin refs'[o.l]
    BY <1>1, <1>2 DEF CallOK
  <1>5. o.pc \in {"init", "rw", "save"} =>
          mountL' = q /\ \E m \in Mounts : o.m = {m} /\ ~mounts'[m].in
    BY <1>1 DEF CallOK
  <1>6. o.pc \in {"rmrw", "rminit", "rmmount"} =>
          mountL' = q /\ \E m \in Mounts : o.m = {m} /\ mounts'[m].in
    BY <1>1 DEF CallOK
  <1> QED BY <1>2, <1>3, <1>4, <1>5, <1>6 DEF CallOK

\* A call goes on, and nobody gains or loses a handle, a layer, a mount or a retained layer.
LEMMA Quiet ==
  ASSUME MemoryType, CallsType, Counts, CallsOK, NEW p \in Procs, NEW o \in Calls,
         op' = [op EXCEPT ![p] = o],
         layerMap' = layerMap, count' = count, refs' = refs, parent' = parent,
         \A m \in Mounts : mounts'[m].in = mounts[m].in /\ mounts'[m].parent = mounts[m].parent,
         \A c \in Chains : Retains(o, c) <=> Retains(op[p], c),
         \A q \in Procs : q # p /\ layerL = q => layerL' = q,
         \A q \in Procs : q # p /\ mountL = q => mountL' = q
  PROVE  Counts' /\ \A q \in Procs : q # p => CallOK(q)'
  <1>1. \A c \in Chains : Retainers(c)' = Retainers(c)
    BY RetainersSame
  <1>2. \A c : Children(c)' = Children(c) /\ MountsOn(c)' = MountsOn(c)
    BY DEF Children, MountsOn
  <1>3. Counts'
    BY <1>1, <1>2 DEF Counts, Counted
  <1>4. ASSUME NEW q \in Procs, q # p PROVE CallOK(q)'
    <2>1. op'[q] = op[q]
      BY <1>4, NewCall
    <2> QED BY <2>1, <1>4, OthersKeep
  <1> QED BY <1>3, <1>4

\* Idle is a call, and it holds nothing.
LEMMA IdleFacts ==
  /\ Idle \in Calls /\ Idle.pc = "idle" /\ Idle.cur = <<>>
  /\ \A c \in Chains : ~Retains(Idle, c)
  BY BoundsAssumption DEF Idle, Calls, Bases, Ids, Retains

\* Where a call is and what it has is of the right kind.
LEMMA CallFields ==
  ASSUME CallsType, NEW p \in Procs
  PROVE  /\ op[p] \in Calls
         /\ op[p].l \in Bases /\ op[p].cur \in Bases /\ op[p].m \in SUBSET Mounts
         /\ op[p].new \in Ids /\ op[p].init \in Ids
  BY DEF CallsType, Calls

\* A call goes to another place.
LEMMA GotoFacts ==
  ASSUME CallsType, NEW p \in Procs, NEW pc,
         pc \in {"idle", "dec", "rmdata", "rmmeta", "create", "apply", "commit", "cleanup",
                 "init", "rw", "save", "rmrw", "rminit", "rmmount"},
         Goto(p, pc)
  PROVE  \E o \in Calls : /\ op' = [op EXCEPT ![p] = o]
                          /\ o.pc = pc /\ o.l = op[p].l /\ o.m = op[p].m /\ o.cur = op[p].cur
                          /\ o.new = op[p].new /\ o.init = op[p].init
  <1> DEFINE o == [op[p] EXCEPT !.pc = pc]
  <1>1. op \in [Procs -> Calls] /\ op[p] \in Calls
    BY DEF CallsType
  <1>2. /\ o \in Calls
        /\ o.pc = pc /\ o.l = op[p].l /\ o.m = op[p].m /\ o.cur = op[p].cur
        /\ o.new = op[p].new /\ o.init = op[p].init
    BY <1>1 DEF Calls
  <1>3. op' = [op EXCEPT ![p] = o]
    BY DEF Goto
  <1> QED BY <1>2, <1>3

\* A call goes to release a layer.
LEMMA GotoRelease ==
  ASSUME CallsType, NEW p \in Procs, NEW c \in Bases,
         op' = [op EXCEPT ![p].pc = "dec", ![p].cur = c]
  PROVE  \E o \in Calls : op' = [op EXCEPT ![p] = o] /\ o.pc = "dec" /\ o.cur = c
  <1> DEFINE o == [op[p] EXCEPT !.pc = "dec", !.cur = c]
  <1>1. op \in [Procs -> Calls] /\ op[p] \in Calls
    BY DEF CallsType
  <1>2. o \in Calls /\ o.pc = "dec" /\ o.cur = c
    BY <1>1 DEF Calls
  <1>3. op' = [op EXCEPT ![p] = o]
    BY <1>1
  <1> QED BY <1>2, <1>3

\* A call returns.
LEMMA ReturnFacts ==
  ASSUME CallsType, NEW p \in Procs, Return(p)
  PROVE  /\ op' = [op EXCEPT ![p] = Idle]
         /\ CallsType'
         /\ \A q \in Procs : q # p /\ layerL = q => layerL' = q
         /\ \A q \in Procs : q # p /\ mountL = q => mountL' = q
         /\ CallOK(p)'
  <1>1. op' = [op EXCEPT ![p] = Idle] /\ op' \in [Procs -> Calls] /\ op'[p] = Idle
    BY IdleFacts, NewCall DEF Return
  <1>2. layerL' \in Procs \cup {NoProc} /\ mountL' \in Procs \cup {NoProc}
    BY DEF Return, CallsType
  <1>3. /\ \A q \in Procs : q # p /\ layerL = q => layerL' = q
        /\ \A q \in Procs : q # p /\ mountL = q => mountL' = q
    BY DEF Return
  <1>4. CallOK(p)'
    BY <1>1, IdleFacts DEF CallOK
  <1> QED BY <1>1, <1>2, <1>3, <1>4 DEF CallsType

\* A call fails: it keeps what it has retained and will release it.
LEMMA FailFacts ==
  ASSUME CallsType, CallsOK, NEW p \in Procs, Fail(p),
         op[p].pc \in {"create", "apply", "cleanup", "init", "rw", "save"}
  PROVE  \E o \in Calls :
           /\ op' = [op EXCEPT ![p] = o]
           /\ CallsType'
           /\ \A c \in Chains : Retains(o, c) <=> Retains(op[p], c)
           /\ \A q \in Procs : q # p /\ layerL = q => layerL' = q
           /\ \A q \in Procs : q # p /\ mountL = q => mountL' = q
           /\ CallOK(p)'
  <1>1. CASE op[p].cur = <<>>
    <2>1. Return(p)
      BY <1>1 DEF Fail
    <2>2. \A c \in Chains : ~Retains(op[p], c) /\ ~Retains(Idle, c)
      BY <1>1, IdleFacts, ChainFacts DEF Retains
    <2> QED BY <2>1, <2>2, ReturnFacts, IdleFacts
  <1>2. CASE op[p].cur # <<>>
    <2>1. Goto(p, "dec") /\ layerL' = layerL /\ mountL' = mountL
      BY <1>2 DEF Fail, locks
    <2>2. PICK o \in Calls : op' = [op EXCEPT ![p] = o] /\ o.pc = "dec" /\ o.cur = op[p].cur
      BY <2>1, GotoFacts
    <2>3. op' \in [Procs -> Calls] /\ op'[p] = o
      BY <2>2, NewCall
    <2>4. CallsType'
      BY <2>1, <2>3 DEF CallsType
    <2>5. \A c \in Chains : Retains(o, c) <=> Retains(op[p], c)
      BY <2>2 DEF Retains
    <2>6. op[p].cur \in Chains
      BY <1>2, CallFields DEF Bases
    <2>7. CallOK(p)'
      BY <2>2, <2>3, <2>6 DEF CallOK
    <2> QED BY <2>1, <2>2, <2>4, <2>5, <2>7
  <1> QED BY <1>1, <1>2

-------------------------------------------------------------------------------
(* What a step leaves alone keeps its part of the invariant                    *)

LEMMA MemorySame ==
  ASSUME MemoryType, layerMap' = layerMap, count' = count, refs' = refs, cache' = cache, parent' = parent
  PROVE  MemoryType'
  BY DEF MemoryType

LEMMA DiskSame ==
  ASSUME DiskType, Parents, meta' = meta, mountMeta' = mountMeta
  PROVE  DiskType' /\ Parents'
  BY DEF DiskType, Parents, MetaOK

LEMMA MountsSame ==
  ASSUME MountsType, NoStaleMount, mounts' = mounts
  PROVE  MountsType' /\ NoStaleMount'
  BY DEF MountsType, NoStaleMount, MountOK

LEMMA DataSame ==
  ASSUME DataType, driver' = driver, base' = base
  PROVE  DataType'
  BY DEF DataType

LEMMA CreateKeeps ==
  ASSUME DataType, NEW d \in Data, NEW b \in Ids, DriverCreate(d, b)
  PROVE  DataType'
  BY DEF DataType, DriverCreate

LEMMA RemoveKeeps ==
  ASSUME DataType, NEW d, DriverRemove(d)
  PROVE  DataType'
  <1>1. 0 \in Ids
    BY BoundsAssumption DEF Ids
  <1> QED BY <1>1 DEF DataType, DriverRemove

\* All calls are as they should be when the one that makes a step and the others are.
LEMMA AllCalls ==
  ASSUME NEW p \in Procs, CallOK(p)', \A q \in Procs : q # p => CallOK(q)'
  PROVE  CallsOK'
  BY DEF CallsOK

-------------------------------------------------------------------------------
(* Steps that change no count                                                  *)

\* A call fails.
LEMMA FailKeeps ==
  ASSUME StoreInv, NEW p \in Procs, Fail(p), UNCHANGED <<memory, mounts>>,
         op[p].pc \in {"create", "apply", "cleanup", "init", "rw", "save"}
  PROVE  CallsType' /\ Counts' /\ CallsOK'
  <1> USE DEF StoreInv
  <1>1. PICK o \in Calls :
         /\ op' = [op EXCEPT ![p] = o]
         /\ CallsType'
         /\ \A c \in Chains : Retains(o, c) <=> Retains(op[p], c)
         /\ \A q \in Procs : q # p /\ layerL = q => layerL' = q
         /\ \A q \in Procs : q # p /\ mountL = q => mountL' = q
         /\ CallOK(p)'
    BY FailFacts
  <1>2. Counts' /\ \A q \in Procs : q # p => CallOK(q)'
    BY <1>1, Quiet DEF memory
  <1> QED BY <1>1, <1>2, AllCalls

\* A call that has retained nothing returns.
LEMMA ReturnKeeps ==
  ASSUME StoreInv, NEW p \in Procs, Return(p),
         layerMap' = layerMap, count' = count, refs' = refs, parent' = parent,
         \A m \in Mounts : mounts'[m].in = mounts[m].in /\ mounts'[m].parent = mounts[m].parent,
         op[p].pc \in {"rmdata", "rmmeta", "rmrw", "rminit", "rmmount"}
  PROVE  CallsType' /\ Counts' /\ CallsOK'
  <1> USE DEF StoreInv
  <1>1. /\ op' = [op EXCEPT ![p] = Idle]
        /\ CallsType'
        /\ \A q \in Procs : q # p /\ layerL = q => layerL' = q
        /\ \A q \in Procs : q # p /\ mountL = q => mountL' = q
        /\ CallOK(p)'
    BY ReturnFacts
  <1>2. \A c \in Chains : ~Retains(op[p], c)
    BY ChainFacts DEF Retains, CallOK, CallsOK
  <1>3. \A c \in Chains : Retains(Idle, c) <=> Retains(op[p], c)
    BY <1>2, IdleFacts
  <1>4. Counts' /\ \A q \in Procs : q # p => CallOK(q)'
    BY <1>1, <1>3, IdleFacts, Quiet
  <1> QED BY <1>1, <1>4, AllCalls

\* A call goes on with what it has.
LEMMA GoOnKeeps ==
  ASSUME StoreInv, NEW p \in Procs, NEW o \in Calls, op' = [op EXCEPT ![p] = o],
         UNCHANGED <<memory, mounts, locks>>,
         \A c \in Chains : Retains(o, c) <=> Retains(op[p], c),
         CallOK(p)'
  PROVE  CallsType' /\ Counts' /\ CallsOK'
  <1> USE DEF StoreInv
  <1>1. op' \in [Procs -> Calls]
    BY NewCall
  <1>2. CallsType'
    BY <1>1 DEF CallsType, locks
  <1>3. Counts' /\ \A q \in Procs : q # p => CallOK(q)'
    BY Quiet DEF memory, locks
  <1> QED BY <1>2, <1>3, AllCalls

\* The layer of the driver that a call creates on.
LEMMA CacheOfType ==
  ASSUME MemoryType, CallsType, NEW p \in Procs
  PROVE  CacheOf(op[p].cur) \in Ids
  BY CallFields, BoundsAssumption DEF CacheOf, Bases, MemoryType, Ids

LEMMA RegisterCreateKeeps ==
  ASSUME StoreInv, NEW p \in Procs, RegisterCreate(p)
  PROVE  StoreInv'
  <1> USE DEF StoreInv
  <1>1. op[p].pc = "create" /\ UNCHANGED <<memory, mounts, disk>>
    BY DEF RegisterCreate, At
  <1>2. MemoryType' /\ DiskType' /\ Parents' /\ MountsType' /\ NoStaleMount' /\ panicked' = FALSE
    BY <1>1, MemorySame, DiskSame, MountsSame DEF memory, disk
  <1>3. CASE \E d \in Data : /\ DriverCreate(d, CacheOf(op[p].cur))
                            /\ op' = [op EXCEPT ![p].new = d, ![p].pc = "apply"]
                            /\ UNCHANGED locks
    <2>1. PICK d \in Data : /\ DriverCreate(d, CacheOf(op[p].cur))
                           /\ op' = [op EXCEPT ![p].new = d, ![p].pc = "apply"]
                           /\ UNCHANGED locks
      BY <1>3
    <2>2. DataType'
      BY <2>1, CacheOfType, CreateKeeps
    <2> DEFINE o == [op[p] EXCEPT !.new = d, !.pc = "apply"]
    <2>3. op[p] \in Calls /\ d \in Ids
      BY CallFields DEF Data, Ids
    <2>4. /\ o \in Calls /\ o.pc = "apply" /\ o.cur = op[p].cur /\ o.l = op[p].l
          /\ op' = [op EXCEPT ![p] = o]
      BY <2>1, <2>3 DEF Calls, CallsType
    <2> HIDE DEF o
    <2>5. op'[p] = o
      BY <2>4, NewCall
    <2>6. \A c \in Chains : Retains(o, c) <=> Retains(op[p], c)
      BY <1>1, <2>4 DEF Retains
    <2>7. CallOK(p)'
      BY <1>1, <2>4, <2>5 DEF CallOK, CallsOK, memory
    <2>8. CallsType' /\ Counts' /\ CallsOK'
      BY <1>1, <2>1, <2>4, <2>6, <2>7, GoOnKeeps
    <2> QED BY <1>2, <2>2, <2>8
  <1>4. CASE DriverCreateFails(CacheOf(op[p].cur)) /\ Fail(p)
    <2>1. CallsType' /\ Counts' /\ CallsOK'
      BY <1>1, <1>4, FailKeeps
    <2>2. DataType'
      BY <1>4, DataSame DEF DriverCreateFails, data
    <2> QED BY <1>2, <2>1, <2>2
  <1> QED BY <1>3, <1>4 DEF RegisterCreate

LEMMA RegisterApplyKeeps ==
  ASSUME StoreInv, NEW p \in Procs, RegisterApply(p)
  PROVE  StoreInv'
  <1> USE DEF StoreInv
  <1>1. op[p].pc = "apply" /\ UNCHANGED <<memory, mounts, disk, data>>
    BY DEF RegisterApply, At
  <1>2. /\ MemoryType' /\ DiskType' /\ Parents' /\ MountsType' /\ NoStaleMount' /\ DataType'
        /\ panicked' = FALSE
    BY <1>1, MemorySame, DiskSame, MountsSame, DataSame DEF memory, disk, data
  <1>3. ASSUME NEW pc \in {"commit", "cleanup"}, Goto(p, pc), UNCHANGED locks
        PROVE  CallsType' /\ Counts' /\ CallsOK'
    <2>1. PICK o \in Calls : /\ op' = [op EXCEPT ![p] = o]
                            /\ o.pc = pc /\ o.l = op[p].l /\ o.cur = op[p].cur
      BY <1>3, GotoFacts
    <2>2. op'[p] = o
      BY <2>1, NewCall
    <2>3. \A c \in Chains : Retains(o, c) <=> Retains(op[p], c)
      BY <1>1, <2>1 DEF Retains
    <2>4. CallOK(p)'
      BY <1>1, <2>1, <2>2 DEF CallOK, CallsOK, memory
    <2> QED BY <1>1, <1>3, <2>1, <2>3, <2>4, GoOnKeeps
  <1>4. CASE Fail(p)
    BY <1>1, <1>2, <1>4, FailKeeps
  <1> QED BY <1>2, <1>3, <1>4 DEF RegisterApply

LEMMA RegisterCleanupKeeps ==
  ASSUME StoreInv, NEW p \in Procs, RegisterCleanup(p)
  PROVE  StoreInv'
  <1> USE DEF StoreInv
  <1>1. op[p].pc = "cleanup" /\ UNCHANGED <<memory, mounts, disk>> /\ Fail(p)
    BY DEF RegisterCleanup, At
  <1>2. MemoryType' /\ DiskType' /\ Parents' /\ MountsType' /\ NoStaleMount' /\ panicked' = FALSE
    BY <1>1, MemorySame, DiskSame, MountsSame DEF memory, disk
  <1>3. DataType'
    BY RemoveKeeps, DataSame DEF RegisterCleanup, data
  <1>4. CallsType' /\ Counts' /\ CallsOK'
    BY <1>1, FailKeeps
  <1> QED BY <1>2, <1>3, <1>4

LEMMA InitMountKeeps ==
  ASSUME StoreInv, NEW p \in Procs, InitMount(p)
  PROVE  StoreInv'
  <1> USE DEF StoreInv
  <1>1. op[p].pc = "init" /\ UNCHANGED <<memory, mounts, disk>>
    BY DEF InitMount, At
  <1>2. MemoryType' /\ DiskType' /\ Parents' /\ MountsType' /\ NoStaleMount' /\ panicked' = FALSE
    BY <1>1, MemorySame, DiskSame, MountsSame DEF memory, disk
  <1>3. CASE \E d \in Data :
               /\ DriverCreate(d, CacheOf(op[p].cur))
               /\ \/ op' = [op EXCEPT ![p].init = d, ![p].pc = "rw"] /\ UNCHANGED locks
                  \/ "init" \in Faults /\ Fail(p)
    <2>1. PICK d \in Data : /\ DriverCreate(d, CacheOf(op[p].cur))
                           /\ \/ op' = [op EXCEPT ![p].init = d, ![p].pc = "rw"] /\ UNCHANGED locks
                              \/ Fail(p)
      BY <1>3
    <2>2. DataType'
      BY <2>1, CacheOfType, CreateKeeps
    <2>3. CASE op' = [op EXCEPT ![p].init = d, ![p].pc = "rw"] /\ UNCHANGED locks
      <3> DEFINE o == [op[p] EXCEPT !.init = d, !.pc = "rw"]
      <3>1. op[p] \in Calls /\ d \in Ids
        BY CallFields DEF Data, Ids
      <3>2. /\ o \in Calls /\ o.pc = "rw" /\ o.cur = op[p].cur /\ o.m = op[p].m
            /\ op' = [op EXCEPT ![p] = o]
        BY <2>3, <3>1 DEF Calls, CallsType
      <3> HIDE DEF o
      <3>3. op'[p] = o
        BY <3>2, NewCall
      <3>4. \A c \in Chains : Retains(o, c) <=> Retains(op[p], c)
        BY <1>1, <3>2 DEF Retains
      <3>5. CallOK(p)'
        BY <1>1, <2>3, <3>2, <3>3 DEF CallOK, CallsOK, memory, locks
      <3>6. CallsType' /\ Counts' /\ CallsOK'
        BY <1>1, <2>3, <3>2, <3>4, <3>5, GoOnKeeps
      <3> QED BY <1>2, <2>2, <3>6
    <2>4. CASE Fail(p)
      <3>1. CallsType' /\ Counts' /\ CallsOK'
        BY <1>1, <2>4, FailKeeps
      <3> QED BY <1>2, <2>2, <3>1
    <2> QED BY <2>1, <2>3, <2>4
  <1>4. CASE DriverCreateFails(CacheOf(op[p].cur)) /\ Fail(p)
    <2>1. CallsType' /\ Counts' /\ CallsOK'
      BY <1>1, <1>4, FailKeeps
    <2>2. DataType'
      BY <1>4, DataSame DEF DriverCreateFails, data
    <2> QED BY <1>2, <2>1, <2>2
  <1> QED BY <1>3, <1>4 DEF InitMount

LEMMA CreateReadWriteKeeps ==
  ASSUME StoreInv, NEW p \in Procs, CreateReadWrite(p)
  PROVE  StoreInv'
  <1> USE DEF StoreInv
  <1>1. op[p].pc = "rw" /\ UNCHANGED <<memory, mounts, disk>>
    BY DEF CreateReadWrite, At
  <1>2. MemoryType' /\ DiskType' /\ Parents' /\ MountsType' /\ NoStaleMount' /\ panicked' = FALSE
    BY <1>1, MemorySame, DiskSame, MountsSame DEF memory, disk
  <1>3. CASE \E d \in Data : /\ DriverCreate(d, op[p].init)
                            /\ op' = [op EXCEPT ![p].new = d, ![p].pc = "save"]
                            /\ UNCHANGED locks
    <2>1. PICK d \in Data : /\ DriverCreate(d, op[p].init)
                           /\ op' = [op EXCEPT ![p].new = d, ![p].pc = "save"]
                           /\ UNCHANGED locks
      BY <1>3
    <2>2. DataType'
      BY <2>1, CallFields, CreateKeeps
    <2> DEFINE o == [op[p] EXCEPT !.new = d, !.pc = "save"]
    <2>3. op[p] \in Calls /\ d \in Ids
      BY CallFields DEF Data, Ids
    <2>4. /\ o \in Calls /\ o.pc = "save" /\ o.cur = op[p].cur /\ o.m = op[p].m
          /\ op' = [op EXCEPT ![p] = o]
      BY <2>1, <2>3 DEF Calls, CallsType
    <2> HIDE DEF o
    <2>5. op'[p] = o
      BY <2>4, NewCall
    <2>6. \A c \in Chains : Retains(o, c) <=> Retains(op[p], c)
      BY <1>1, <2>4 DEF Retains
    <2>7. CallOK(p)'
      BY <1>1, <2>1, <2>4, <2>5 DEF CallOK, CallsOK, memory, locks
    <2>8. CallsType' /\ Counts' /\ CallsOK'
      BY <1>1, <2>1, <2>4, <2>6, <2>7, GoOnKeeps
    <2> QED BY <1>2, <2>2, <2>8
  <1>4. CASE DriverCreateFails(op[p].init) /\ Fail(p)
    <2>1. CallsType' /\ Counts' /\ CallsOK'
      BY <1>1, <1>4, FailKeeps
    <2>2. DataType'
      BY <1>4, DataSame DEF DriverCreateFails, data
    <2> QED BY <1>2, <2>1, <2>2
  <1> QED BY <1>3, <1>4 DEF CreateReadWrite

-------------------------------------------------------------------------------
(* Handles of mounts, and the steps of removing                                *)

\* The mount of a call that makes or deletes one.
LEMMA MountFacts ==
  ASSUME MountsType, CallsOK, NEW p \in Procs
  PROVE  /\ op[p].pc \in {"init", "rw", "save"} =>
              op[p].m = {Mount(p)} /\ Mount(p) \in Mounts /\ ~mounts[Mount(p)].in /\ mountL = p
         /\ op[p].pc \in {"rmrw", "rminit", "rmmount"} =>
              op[p].m = {Mount(p)} /\ Mount(p) \in Mounts /\ mounts[Mount(p)].in /\ mountL = p
  <1>1. ASSUME op[p].pc \in {"init", "rw", "save"}
        PROVE  op[p].m = {Mount(p)} /\ Mount(p) \in Mounts /\ ~mounts[Mount(p)].in /\ mountL = p
    <2>1. PICK m \in Mounts : op[p].m = {m} /\ ~mounts[m].in /\ mountL = p
      BY <1>1 DEF CallsOK, CallOK
    <2>2. Mount(p) = m
      BY <2>1 DEF Mount
    <2> QED BY <2>1, <2>2
  <1>2. ASSUME op[p].pc \in {"rmrw", "rminit", "rmmount"}
        PROVE  op[p].m = {Mount(p)} /\ Mount(p) \in Mounts /\ mounts[Mount(p)].in /\ mountL = p
    <2>1. PICK m \in Mounts : op[p].m = {m} /\ mounts[m].in /\ mountL = p
      BY <1>2 DEF CallsOK, CallOK
    <2>2. Mount(p) = m
      BY <2>1 DEF Mount
    <2> QED BY <2>1, <2>2
  <1> QED BY <1>1, <1>2

\* The handles of a mount change.
LEMMA MountRefs ==
  ASSUME MountsType, NoStaleMount, NEW m \in Mounts, NEW R \in SUBSET Procs, mounts[m].in,
         mounts' = [mounts EXCEPT ![m].refs = R]
  PROVE  /\ MountsType' /\ NoStaleMount'
         /\ \A n \in Mounts : mounts'[n].in = mounts[n].in /\ mounts'[n].parent = mounts[n].parent
  <1>1. MountsType'
    BY DEF MountsType
  <1>2. /\ \A n \in Mounts : n # m => mounts'[n] = mounts[n]
        /\ mounts'[m].in = mounts[m].in /\ mounts'[m].parent = mounts[m].parent
    BY DEF MountsType
  <1>3. \A n \in Mounts : mounts'[n].in = mounts[n].in /\ mounts'[n].parent = mounts[n].parent
    BY <1>2
  <1>4. NoStaleMount'
    BY <1>2 DEF NoStaleMount, MountOK
  <1> QED BY <1>1, <1>3, <1>4

\* An error of a removal gives the handle back.
LEMMA RetakeKeeps ==
  ASSUME StoreInv, NEW p \in Procs, Retake(p), UNCHANGED memory,
         op[p].pc \in {"rmrw", "rminit", "rmmount"}
  PROVE  MountsType' /\ NoStaleMount' /\ CallsType' /\ Counts' /\ CallsOK'
  <1> USE DEF StoreInv
  <1> DEFINE m == Mount(p)
  <1>1. m \in Mounts /\ mounts[m].in
    BY MountFacts
  <1>2. mounts' = [mounts EXCEPT ![m].refs = mounts[m].refs \cup {p}] /\ Return(p)
    BY DEF Retake
  <1>3. mounts[m].refs \cup {p} \in SUBSET Procs
    BY <1>1 DEF MountsType
  <1> HIDE DEF m
  <1>4. /\ MountsType' /\ NoStaleMount'
        /\ \A n \in Mounts : mounts'[n].in = mounts[n].in /\ mounts'[n].parent = mounts[n].parent
    BY <1>1, <1>2, <1>3, MountRefs
  <1>5. CallsType' /\ Counts' /\ CallsOK'
    BY <1>2, <1>4, ReturnKeeps DEF memory
  <1> QED BY <1>4, <1>5

\* A removal goes to its next step.
LEMMA RemovalGoesOn ==
  ASSUME StoreInv, NEW p \in Procs, NEW pc, Goto(p, pc), UNCHANGED <<memory, mounts, locks>>,
         \/ op[p].pc \in {"rmrw", "rminit", "rmmount"} /\ pc \in {"rmrw", "rminit", "rmmount"}
         \/ op[p].pc = "rmdata" /\ pc = "rmmeta"
  PROVE  CallsType' /\ Counts' /\ CallsOK'
  <1> USE DEF StoreInv
  <1>1. PICK o \in Calls : /\ op' = [op EXCEPT ![p] = o]
                          /\ o.pc = pc /\ o.m = op[p].m /\ o.cur = op[p].cur
    BY GotoFacts
  <1>2. op'[p] = o
    BY <1>1, NewCall
  <1>3. \A c \in Chains : Retains(o, c) <=> Retains(op[p], c)
    <2>1. op[p].pc \in {"rmrw", "rminit", "rmmount"} => op[p].cur = <<>>
      BY DEF CallsOK, CallOK
    <2> QED BY <1>1, <2>1, ChainFacts DEF Retains
  <1>4. CallOK(p)'
    BY <1>1, <1>2 DEF CallOK, CallsOK, memory, locks
  <1> QED BY <1>1, <1>3, <1>4, GoOnKeeps

LEMMA GetRWLayerKeeps ==
  ASSUME StoreInv, NEW p \in Procs, NEW m \in Mounts, GetRWLayer(p, m)
  PROVE  StoreInv'
  <1> USE DEF StoreInv
  <1>1. UNCHANGED <<memory, locks, op, disk, data>> /\ mounts[m].in /\ op[p].pc = "idle"
    BY DEF GetRWLayer, At
  <1>2. mounts' = [mounts EXCEPT ![m].refs = mounts[m].refs \cup {p}]
    BY DEF GetRWLayer
  <1>3. mounts[m].refs \cup {p} \in SUBSET Procs
    BY DEF MountsType
  <1>4. /\ MountsType' /\ NoStaleMount'
        /\ \A n \in Mounts : mounts'[n].in = mounts[n].in /\ mounts'[n].parent = mounts[n].parent
    BY <1>1, <1>2, <1>3, MountRefs
  <1>5. MemoryType' /\ DiskType' /\ Parents' /\ DataType' /\ panicked' = FALSE
    BY <1>1, MemorySame, DiskSame, DataSame DEF memory, disk, data
  <1>6. op' = [op EXCEPT ![p] = op[p]] /\ CallsType'
    BY <1>1 DEF CallsType, locks
  <1>7. Counts' /\ \A q \in Procs : q # p => CallOK(q)'
    BY <1>1, <1>4, <1>6, CallFields, Quiet DEF memory, locks
  <1>8. CallOK(p)'
    BY <1>1 DEF CallsOK, CallOK
  <1> QED BY <1>4, <1>5, <1>6, <1>7, <1>8, AllCalls

LEMMA ReleaseRWLayerKeeps ==
  ASSUME StoreInv, NEW p \in Procs, NEW m \in Mounts, ReleaseRWLayer(p, m)
  PROVE  StoreInv'
  <1> USE DEF StoreInv
  <1>1. /\ UNCHANGED <<memory, layerL, disk, data>> /\ p \in mounts[m].refs
        /\ op[p].pc = "idle" /\ mountL = NoProc
    BY DEF ReleaseRWLayer, At
  <1>2. mounts' = [mounts EXCEPT ![m].refs = mounts[m].refs \ {p}]
    BY DEF ReleaseRWLayer
  <1>3. mounts[m].refs \ {p} \in SUBSET Procs
    BY DEF MountsType
  <1>4. mounts[m].in
    BY <1>1 DEF NoStaleMount, MountOK, NoMount
  <1>5. /\ MountsType' /\ NoStaleMount'
        /\ \A n \in Mounts : mounts'[n].in = mounts[n].in /\ mounts'[n].parent = mounts[n].parent
    BY <1>2, <1>3, <1>4, MountRefs
  <1>6. MemoryType' /\ DiskType' /\ Parents' /\ DataType' /\ panicked' = FALSE
    BY <1>1, MemorySame, DiskSame, DataSame DEF memory, disk, data
  <1>7. op[p].cur = <<>> /\ \A c \in Chains : ~Retains(op[p], c)
    BY <1>1 DEF CallsOK, CallOK, Retains
  <1>8. CASE UNCHANGED <<mountL, op>>
    <2>1. op' = [op EXCEPT ![p] = op[p]] /\ CallsType'
      BY <1>1, <1>8 DEF CallsType
    <2>2. Counts' /\ \A q \in Procs : q # p => CallOK(q)'
      BY <1>1, <1>5, <1>8, <2>1, CallFields, Quiet DEF memory
    <2>3. CallOK(p)'
      BY <1>1, <1>7, <1>8 DEF CallOK
    <2> QED BY <1>5, <1>6, <2>1, <2>2, <2>3, AllCalls
  <1>9. CASE mountL' = p /\ op' = [op EXCEPT ![p].pc = "rmrw", ![p].m = {m}]
    <2> DEFINE o == [op[p] EXCEPT !.pc = "rmrw", !.m = {m}]
    <2>1. op[p] \in Calls
      BY CallFields
    <2>2. /\ o \in Calls /\ o.pc = "rmrw" /\ o.cur = op[p].cur /\ o.m = {m}
          /\ op' = [op EXCEPT ![p] = o]
      BY <1>9, <2>1 DEF Calls, CallsType
    <2> HIDE DEF o
    <2>3. op' \in [Procs -> Calls] /\ op'[p] = o
      BY <2>2, NewCall
    <2>4. \A c \in Chains : Retains(o, c) <=> Retains(op[p], c)
      BY <1>7, <2>2, ChainFacts DEF Retains
    <2>5. CallOK(p)'
      BY <1>4, <1>5, <1>7, <1>9, <2>2, <2>3 DEF CallOK
    <2>6. \A q \in Procs : mountL # q
      BY <1>1, ProcsAssumption
    <2>7. Counts' /\ \A q \in Procs : q # p => CallOK(q)'
      BY <1>1, <1>5, <2>2, <2>4, <2>6, Quiet DEF memory
    <2>8. CallsType'
      BY <1>1, <1>9, <2>3 DEF CallsType
    <2> QED BY <1>5, <1>6, <2>5, <2>7, <2>8, AllCalls
  <1> QED BY <1>8, <1>9 DEF ReleaseRWLayer

LEMMA RemoveRWKeeps ==
  ASSUME StoreInv, NEW p \in Procs, RemoveRW(p)
  PROVE  StoreInv'
  <1> USE DEF StoreInv
  <1>1. op[p].pc = "rmrw" /\ UNCHANGED <<memory, disk>>
    BY DEF RemoveRW, At
  <1>2. MemoryType' /\ DiskType' /\ Parents' /\ panicked' = FALSE
    BY <1>1, MemorySame, DiskSame DEF memory, disk
  <1>3. DataType'
    BY RemoveKeeps, DataSame DEF RemoveRW, data
  <1>4. CASE Goto(p, "rminit") /\ UNCHANGED <<mounts, locks>>
    <2>1. CallsType' /\ Counts' /\ CallsOK'
      BY <1>1, <1>4, RemovalGoesOn
    <2> QED BY <1>2, <1>3, <1>4, <2>1, MountsSame
  <1>5. CASE Retake(p)
    BY <1>1, <1>2, <1>3, <1>5, RetakeKeeps
  <1> QED BY <1>4, <1>5 DEF RemoveRW

LEMMA RemoveInitKeeps ==
  ASSUME StoreInv, NEW p \in Procs, RemoveInit(p)
  PROVE  StoreInv'
  <1> USE DEF StoreInv
  <1>1. op[p].pc = "rminit" /\ UNCHANGED <<memory, disk>>
    BY DEF RemoveInit, At
  <1>2. MemoryType' /\ DiskType' /\ Parents' /\ panicked' = FALSE
    BY <1>1, MemorySame, DiskSame DEF memory, disk
  <1>3. DataType'
    BY RemoveKeeps, DataSame DEF RemoveInit, data
  <1>4. CASE Goto(p, "rmmount") /\ UNCHANGED <<mounts, locks>>
    <2>1. CallsType' /\ Counts' /\ CallsOK'
      BY <1>1, <1>4, RemovalGoesOn
    <2> QED BY <1>2, <1>3, <1>4, <2>1, MountsSame
  <1>5. CASE Retake(p)
    BY <1>1, <1>2, <1>3, <1>5, RetakeKeeps
  <1> QED BY <1>4, <1>5 DEF RemoveInit

LEMMA RemoveDataKeeps ==
  ASSUME StoreInv, NEW p \in Procs, RemoveData(p)
  PROVE  StoreInv'
  <1> USE DEF StoreInv
  <1>1. op[p].pc = "rmdata" /\ UNCHANGED <<memory, mounts, disk>>
    BY DEF RemoveData, At
  <1>2. MemoryType' /\ DiskType' /\ Parents' /\ MountsType' /\ NoStaleMount' /\ panicked' = FALSE
    BY <1>1, MemorySame, DiskSame, MountsSame DEF memory, disk
  <1>3. DataType'
    BY RemoveKeeps, DataSame DEF RemoveData, data
  <1>4. CASE Goto(p, "rmmeta") /\ UNCHANGED locks
    <2>1. CallsType' /\ Counts' /\ CallsOK'
      BY <1>1, <1>4, RemovalGoesOn
    <2> QED BY <1>2, <1>3, <2>1
  <1>5. CASE Return(p)
    <2>1. CallsType' /\ Counts' /\ CallsOK'
      BY <1>1, <1>5, ReturnKeeps DEF memory
    <2> QED BY <1>2, <1>3, <2>1
  <1> QED BY <1>4, <1>5 DEF RemoveData

-------------------------------------------------------------------------------
(* Steps that change a count                                                   *)

\* Nothing changes for a layer.
LEMMA SameCount ==
  ASSUME MemoryType, Counts, NEW c \in Chains,
         refs'[c] = refs[c], Children(c)' = Children(c), MountsOn(c)' = MountsOn(c),
         Retainers(c)' = Retainers(c), count'[c] = count[c], c \in layerMap => c \in layerMap'
  PROVE  Counted(c)'
  BY CountFacts DEF Counted

\* A count changes with one or two of the sets.
LEMMA NewCount ==
  ASSUME MemoryType, Counts, NEW c \in Chains,
         NEW dr \in {-1, 0, 1}, NEW dm \in {-1, 0, 1}, NEW dt \in {-1, 0, 1},
         IF dr = 0 THEN refs'[c] = refs[c] ELSE Cardinality(refs'[c]) = Cardinality(refs[c]) + dr,
         Children(c)' = Children(c),
         IF dm = 0 THEN MountsOn(c)' = MountsOn(c)
                   ELSE Cardinality(MountsOn(c)') = Cardinality(MountsOn(c)) + dm,
         IF dt = 0 THEN Retainers(c)' = Retainers(c)
                   ELSE Cardinality(Retainers(c)') = Cardinality(Retainers(c)) + dt,
         count'[c] = count[c] + dr + dm + dt,
         c \in layerMap' \/ count'[c] = 0
  PROVE  Counted(c)'
  <1>1. /\ count[c] = Cardinality(refs[c]) + Cardinality(Children(c)) + Cardinality(MountsOn(c))
                       + Cardinality(Retainers(c))
        /\ Cardinality(refs[c]) \in Nat /\ Cardinality(Children(c)) \in Nat
        /\ Cardinality(MountsOn(c)) \in Nat /\ Cardinality(Retainers(c)) \in Nat
    BY CountFacts, Finite
  <1>2. /\ Cardinality(refs'[c]) = Cardinality(refs[c]) + dr
        /\ Cardinality(Children(c)') = Cardinality(Children(c))
        /\ Cardinality(MountsOn(c)') = Cardinality(MountsOn(c)) + dm
        /\ Cardinality(Retainers(c)') = Cardinality(Retainers(c)) + dt
    BY <1>1
  <1>3. count'[c] = Cardinality(refs'[c]) + Cardinality(Children(c)') + Cardinality(MountsOn(c)')
                      + Cardinality(Retainers(c)')
    BY <1>1, <1>2
  <1> QED BY <1>3 DEF Counted

LEMMA GetKeeps ==
  ASSUME StoreInv, NEW p \in Procs, NEW c \in Chains, Get(p, c)
  PROVE  StoreInv'
  <1> USE DEF StoreInv
  <1>1. /\ UNCHANGED <<layerMap, cache, parent, panicked, mounts, locks, op, disk, data>>
        /\ layerL = NoProc /\ c \in layerMap /\ p \notin refs[c] /\ op[p].pc = "idle"
        /\ count' = [count EXCEPT ![c] = count[c] + 1]
        /\ refs' = [refs EXCEPT ![c] = refs[c] \cup {p}]
    BY DEF Get, At, Retain
  <1>2. /\ count' \in [Chains -> Nat] /\ count'[c] = count[c] + 1
        /\ \A d \in Chains : d # c => count'[d] = count[d]
    BY <1>1 DEF MemoryType
  <1>3. /\ refs' \in [Chains -> SUBSET Procs] /\ refs'[c] = refs[c] \cup {p}
        /\ \A d \in Chains : d # c => refs'[d] = refs[d]
    BY <1>1 DEF MemoryType
  <1>4. MemoryType'
    BY <1>1, <1>2, <1>3 DEF MemoryType
  <1>5. /\ DiskType' /\ Parents' /\ MountsType' /\ NoStaleMount' /\ DataType' /\ panicked' = FALSE
        /\ CallsType'
    BY <1>1, DiskSame, MountsSame, DataSame DEF disk, data, CallsType, locks
  <1>6. \A d : Children(d)' = Children(d) /\ MountsOn(d)' = MountsOn(d) /\ Retainers(d)' = Retainers(d)
    BY <1>1 DEF Children, MountsOn, Retainers
  <1>7. Counted(c)'
    <2>1. Cardinality(refs'[c]) = Cardinality(refs[c]) + 1
      BY <1>1, <1>3, Finite, OneMore
    <2>2. count'[c] = count[c] + 1 + 0 + 0 /\ c \in layerMap'
      BY <1>1, <1>2 DEF MemoryType
    <2> QED BY <1>6, <2>1, <2>2, NewCount
  <1>8. \A d \in Chains : d # c => Counted(d)'
    BY <1>1, <1>2, <1>3, <1>6, SameCount
  <1>9. ASSUME NEW q \in Procs PROVE CallOK(q)'
    <2>1. CASE q = p
      BY <1>1, <2>1 DEF CallsOK, CallOK
    <2>2. CASE q # p
      <3>1. layerL # q
        BY <1>1, ProcsAssumption
      <3>2. \A d \in Chains : q \in refs'[d] => q \in refs[d]
        BY <1>3, <2>2
      <3>3. op'[q] = op[q] /\ mountL' = mountL /\ mounts' = mounts
        BY <1>1 DEF locks
      <3> QED BY <3>1, <3>2, <3>3, OthersKeep
    <2> QED BY <2>1, <2>2
  <1> QED BY <1>4, <1>5, <1>7, <1>8, <1>9 DEF Counts, CallsOK

LEMMA ReleaseKeeps ==
  ASSUME StoreInv, NEW p \in Procs, NEW c \in Chains, Release(p, c)
  PROVE  StoreInv'
  <1> USE DEF StoreInv
  <1>1. /\ UNCHANGED <<layerMap, count, cache, parent, panicked, mounts, mountL, disk, data>>
        /\ layerL = NoProc /\ p \in refs[c] /\ op[p].pc = "idle" /\ layerL' = p
        /\ refs' = [refs EXCEPT ![c] = refs[c] \ {p}]
        /\ op' = [op EXCEPT ![p].pc = "dec", ![p].cur = c]
    BY DEF Release, At
  <1>2. /\ refs' \in [Chains -> SUBSET Procs] /\ refs'[c] = refs[c] \ {p}
        /\ \A d \in Chains : d # c => refs'[d] = refs[d]
    BY <1>1 DEF MemoryType
  <1>3. PICK o \in Calls : op' = [op EXCEPT ![p] = o] /\ o.pc = "dec" /\ o.cur = c
    <2>1. c \in Bases
      BY DEF Bases
    <2> QED BY <1>1, <2>1, GotoRelease
  <1>4. op' \in [Procs -> Calls] /\ op'[p] = o /\ \A q \in Procs : q # p => op'[q] = op[q]
    BY <1>3, NewCall
  <1>5. MemoryType' /\ CallsType'
    BY <1>1, <1>2, <1>4 DEF MemoryType, CallsType
  <1>6. DiskType' /\ Parents' /\ MountsType' /\ NoStaleMount' /\ DataType' /\ panicked' = FALSE
    BY <1>1, DiskSame, MountsSame, DataSame DEF disk, data
  <1>7. \A d : Children(d)' = Children(d) /\ MountsOn(d)' = MountsOn(d)
    BY <1>1 DEF Children, MountsOn
  <1>8. \A d \in Chains : p \notin Retainers(d)
    BY <1>1 DEF Retainers
  <1>9. /\ Retainers(c)' = Retainers(c) \cup {p}
        /\ \A d \in Chains : d # c => Retainers(d)' = Retainers(d)
    <2>1. \A d \in Chains : Retainers(d)' = IF Retains(o, d) THEN Retainers(d) \cup {p}
                                                             ELSE Retainers(d) \ {p}
      BY <1>3, NewCall
    <2>2. \A d \in Chains : Retains(o, d) <=> d = c
      BY <1>3 DEF Retains
    <2> HIDE DEF Retainers
    <2> QED BY <2>1, <2>2, <1>8
  <1>10. Counted(c)'
    <2>1. Cardinality(refs'[c]) = Cardinality(refs[c]) + (-1)
      BY <1>1, <1>2, Finite, OneLess
    <2>2. Cardinality(Retainers(c)') = Cardinality(Retainers(c)) + 1
      BY <1>8, <1>9, Finite, OneMore
    <2>3. count'[c] = count[c] + (-1) + 0 + 1
      BY <1>1, CountFacts
    <2>4. c \in layerMap' \/ count'[c] = 0
      BY <1>1, CountFacts
    <2> QED BY <1>7, <2>1, <2>2, <2>3, <2>4, NewCount
  <1>11. \A d \in Chains : d # c => Counted(d)'
    BY <1>1, <1>2, <1>7, <1>9, SameCount
  <1>12. CallOK(p)'
    BY <1>3, <1>4 DEF CallOK
  <1>13. ASSUME NEW q \in Procs, q # p PROVE CallOK(q)'
    <2>1. layerL # q
      BY <1>1, ProcsAssumption
    <2>2. \A d \in Chains : q \in refs'[d] => q \in refs[d]
      BY <1>2
    <2> QED BY <1>1, <1>4, <1>13, <2>1, <2>2, OthersKeep
  <1> QED BY <1>5, <1>6, <1>10, <1>11, <1>12, <1>13 DEF Counts, CallsOK

\* A call releases what it has retained, or takes a layer.
LEMMA RetainersLose ==
  ASSUME MemoryType, CallsType, NEW p \in Procs, NEW o \in Calls, op' = [op EXCEPT ![p] = o],
         \A d \in Chains : ~Retains(o, d)
  PROVE  /\ \A d \in Chains : ~Retains(op[p], d) => Retainers(d)' = Retainers(d)
         /\ \A d \in Chains : Retains(op[p], d) =>
              Cardinality(Retainers(d)') = Cardinality(Retainers(d)) + (-1)
  <1> SUFFICES ASSUME NEW d \in Chains
               PROVE  /\ ~Retains(op[p], d) => Retainers(d)' = Retainers(d)
                      /\ Retains(op[p], d) =>
                           Cardinality(Retainers(d)') = Cardinality(Retainers(d)) + (-1)
    OBVIOUS
  <1>1. Retainers(d)' = Retainers(d) \ {p}
    BY NewCall
  <1>2. p \in Retainers(d) <=> Retains(op[p], d)
    BY NewCall
  <1> HIDE DEF Retainers, Retains
  <1>3. Retains(op[p], d) => Cardinality(Retainers(d) \ {p}) = Cardinality(Retainers(d)) - 1
    BY <1>2, Finite, OneLess
  <1>4. Retains(op[p], d) => Cardinality(Retainers(d)') = Cardinality(Retainers(d)) + (-1)
    BY <1>1, <1>3, Finite
  <1> QED BY <1>1, <1>2, <1>4

LEMMA RetainersGain ==
  ASSUME MemoryType, CallsType, NEW p \in Procs, NEW o \in Calls, op' = [op EXCEPT ![p] = o],
         \A d \in Chains : ~Retains(op[p], d)
  PROVE  /\ \A d \in Chains : ~Retains(o, d) => Retainers(d)' = Retainers(d)
         /\ \A d \in Chains : Retains(o, d) =>
              Cardinality(Retainers(d)') = Cardinality(Retainers(d)) + 1
  <1> SUFFICES ASSUME NEW d \in Chains
               PROVE  /\ ~Retains(o, d) => Retainers(d)' = Retainers(d)
                      /\ Retains(o, d) =>
                           Cardinality(Retainers(d)') = Cardinality(Retainers(d)) + 1
    OBVIOUS
  <1>1. Retainers(d)' = IF Retains(o, d) THEN Retainers(d) \cup {p} ELSE Retainers(d) \ {p}
    BY NewCall
  <1>2. p \notin Retainers(d)
    BY NewCall
  <1> HIDE DEF Retainers, Retains
  <1>3. Cardinality(Retainers(d) \cup {p}) = Cardinality(Retainers(d)) + 1
    BY <1>2, Finite, OneMore
  <1> QED BY <1>1, <1>2, <1>3

LEMMA DecKeeps ==
  ASSUME StoreInv, NEW p \in Procs, Dec(p)
  PROVE  StoreInv'
  <1> USE DEF StoreInv
  <1>1. /\ op[p].pc = "dec" /\ layerL \in {NoProc, p}
        /\ UNCHANGED <<layerMap, refs, cache, parent, mounts, disk, data>>
    BY DEF Dec, At
  <1>2. PICK c \in Chains : c = op[p].cur /\ Retains(op[p], c)
    BY <1>1 DEF CallsOK, CallOK, Retains
  <1>3. p \in Retainers(c)
    BY <1>1, <1>2 DEF Retainers, Retains
  <1>4. count[c] \in Nat /\ count[c] # 0 /\ c \in layerMap /\ (count[c] = 1 => refs[c] = {})
    BY <1>2, <1>3, CountFacts
  <1>5. DiskType' /\ Parents' /\ MountsType' /\ NoStaleMount' /\ DataType'
    BY <1>1, DiskSame, MountsSame, DataSame DEF disk, data
  <1>6. \A d : Children(d)' = Children(d) /\ MountsOn(d)' = MountsOn(d)
    BY <1>1 DEF Children, MountsOn
  <1>7. ASSUME count' = [count EXCEPT ![c] = count[c] - 1], NEW o \in Calls,
               op' = [op EXCEPT ![p] = o], \A d \in Chains : ~Retains(o, d)
        PROVE  MemoryType' /\ Counts'
    <2>1. /\ count' \in [Chains -> Nat] /\ count'[c] = count[c] - 1
          /\ \A d \in Chains : d # c => count'[d] = count[d]
      BY <1>2, <1>4, <1>7 DEF MemoryType
    <2>2. MemoryType'
      BY <1>1, <2>1 DEF MemoryType
    <2>3. \A d \in Chains : Retains(op[p], d) <=> d = c
      BY <1>1, <1>2 DEF Retains
    <2>4. /\ Cardinality(Retainers(c)') = Cardinality(Retainers(c)) + (-1)
          /\ \A d \in Chains : d # c => Retainers(d)' = Retainers(d)
      BY <1>2, <1>7, <2>3, RetainersLose
    <2>5. Counted(c)'
      <3>1. count'[c] = count[c] + 0 + 0 + (-1)
        BY <1>4, <2>1
      <3> QED BY <1>1, <1>2, <1>4, <1>6, <2>4, <3>1, NewCount
    <2>6. \A d \in Chains : d # c => Counted(d)'
      BY <1>1, <1>6, <2>1, <2>4, SameCount
    <2> QED BY <2>2, <2>5, <2>6 DEF Counts
  <1>8. ASSUME op' = [op EXCEPT ![p] = op'[p]], op'[p] \in Calls, CallOK(p)',
               \A q \in Procs : q # p /\ mountL = q => mountL' = q
        PROVE  CallsOK'
    <2>1. ASSUME NEW q \in Procs, q # p PROVE CallOK(q)'
      <3>1. layerL # q
        BY <1>1, <2>1, ProcsAssumption
      <3>2. op'[q] = op[q]
        BY <1>8, <2>1, NewCall
      <3> QED BY <1>1, <1>8, <2>1, <3>1, <3>2, OthersKeep
    <2> QED BY <1>8, <2>1, AllCalls
  <1>9. CASE count[c] > 1 /\ count' = [count EXCEPT ![c] = @ - 1] /\ Return(p) /\ UNCHANGED panicked
    <2>1. /\ op' = [op EXCEPT ![p] = Idle] /\ CallsType' /\ CallOK(p)'
          /\ \A q \in Procs : q # p /\ mountL = q => mountL' = q
      BY <1>9, ReturnFacts
    <2>2. op'[p] = Idle
      BY <2>1, IdleFacts, NewCall
    <2>3. MemoryType' /\ Counts'
      BY <1>7, <1>9, <2>1, IdleFacts
    <2>4. CallsOK'
      BY <1>8, <2>1, <2>2, IdleFacts
    <2> QED BY <1>5, <1>9, <2>1, <2>3, <2>4
  <1>10. CASE /\ count[c] = 1 /\ count' = [count EXCEPT ![c] = 0] /\ layerL' = p
              /\ Goto(p, "rmdata") /\ UNCHANGED <<mountL, panicked>>
    <2>1. PICK o \in Calls : /\ op' = [op EXCEPT ![p] = o]
                            /\ o.pc = "rmdata" /\ o.cur = c
      BY <1>2, <1>10, GotoFacts
    <2>2. op' \in [Procs -> Calls] /\ op'[p] = o
      BY <2>1, NewCall
    <2>3. \A d \in Chains : ~Retains(o, d)
      BY <2>1 DEF Retains
    <2>4. count' = [count EXCEPT ![c] = count[c] - 1]
      BY <1>10
    <2>5. MemoryType' /\ Counts'
      BY <1>7, <2>1, <2>3, <2>4
    <2>6. CallsType'
      BY <1>10, <2>2 DEF CallsType
    <2>7. count'[c] = 0
      BY <1>2, <1>10 DEF MemoryType
    <2>8. CallOK(p)'
      BY <1>1, <1>2, <1>4, <1>10, <2>1, <2>2, <2>7 DEF CallOK
    <2>9. CallsOK'
      BY <1>8, <1>10, <2>1, <2>2, <2>8
    <2> QED BY <1>5, <1>10, <2>5, <2>6, <2>9
  <1>11. ~(count[c] = 0 \/ (count[c] = 1 /\ refs[c] # {}))
    BY <1>4
  <1>12. \/ count[c] > 1 /\ count' = [count EXCEPT ![c] = @ - 1] /\ Return(p) /\ UNCHANGED panicked
         \/ /\ count[c] = 1 /\ count' = [count EXCEPT ![c] = 0] /\ layerL' = p
            /\ Goto(p, "rmdata") /\ UNCHANGED <<mountL, panicked>>
    BY <1>2, <1>11 DEF Dec
  <1> QED BY <1>9, <1>10, <1>12

LEMMA CreateRWLayerKeeps ==
  ASSUME StoreInv, NEW p \in Procs, NEW m \in Mounts, NEW c \in Chains, CreateRWLayer(p, m, c)
  PROVE  StoreInv'
  <1> USE DEF StoreInv
  <1> DEFINE o == [Idle EXCEPT !.m = {m}, !.cur = c, !.pc = "init"]
  <1>1. /\ UNCHANGED <<layerMap, refs, cache, parent, panicked, mounts, layerL, disk, data>>
        /\ op[p].pc = "idle" /\ mountL = NoProc /\ layerL = NoProc /\ mountL' = p
        /\ ~mounts[m].in /\ c \in layerMap
        /\ count' = [count EXCEPT ![c] = count[c] + 1]
        /\ op' = [op EXCEPT ![p] = o]
    BY DEF CreateRWLayer, At, Retain
  <1>2. o \in Calls /\ o.pc = "init" /\ o.cur = c /\ o.m = {m}
    <2>1. Idle \in Calls /\ c \in Bases /\ {m} \in SUBSET Mounts
      BY IdleFacts DEF Bases
    <2> QED BY <2>1 DEF Calls
  <1> HIDE DEF o
  <1>3. /\ count' \in [Chains -> Nat] /\ count'[c] = count[c] + 1
        /\ \A d \in Chains : d # c => count'[d] = count[d]
    BY <1>1 DEF MemoryType
  <1>4. op' \in [Procs -> Calls] /\ op'[p] = o /\ \A q \in Procs : q # p => op'[q] = op[q]
    BY <1>1, <1>2, NewCall
  <1>5. MemoryType' /\ CallsType'
    BY <1>1, <1>3, <1>4 DEF MemoryType, CallsType
  <1>6. DiskType' /\ Parents' /\ MountsType' /\ NoStaleMount' /\ DataType' /\ panicked' = FALSE
    BY <1>1, DiskSame, MountsSame, DataSame DEF disk, data
  <1>7. \A d : Children(d)' = Children(d) /\ MountsOn(d)' = MountsOn(d)
    BY <1>1 DEF Children, MountsOn
  <1>8. /\ Cardinality(Retainers(c)') = Cardinality(Retainers(c)) + 1
        /\ \A d \in Chains : d # c => Retainers(d)' = Retainers(d)
    <2>1. \A d \in Chains : ~Retains(op[p], d)
      BY <1>1 DEF Retains
    <2>2. \A d \in Chains : Retains(o, d) <=> d = c
      BY <1>2 DEF Retains
    <2> QED BY <1>1, <1>2, <2>1, <2>2, RetainersGain
  <1>9. Counted(c)'
    <2>1. count'[c] = count[c] + 0 + 0 + 1
      BY <1>3 DEF MemoryType
    <2> QED BY <1>1, <1>7, <1>8, <2>1, NewCount
  <1>10. \A d \in Chains : d # c => Counted(d)'
    BY <1>1, <1>3, <1>7, <1>8, SameCount
  <1>11. CallOK(p)'
    BY <1>1, <1>2, <1>4 DEF CallOK
  <1>12. ASSUME NEW q \in Procs, q # p PROVE CallOK(q)'
    <2>1. layerL # q /\ mountL # q
      BY <1>1, ProcsAssumption
    <2> QED BY <1>1, <1>4, <1>12, <2>1, OthersKeep
  <1> QED BY <1>5, <1>6, <1>9, <1>10, <1>11, <1>12 DEF Counts, CallsOK

LEMMA RegisterKeeps ==
  ASSUME StoreInv, NEW p \in Procs, NEW c \in Chains, Register(p, c)
  PROVE  StoreInv'
  <1> USE DEF StoreInv
  <1> DEFINE up == Front(c)
             o == [Idle EXCEPT !.l = c, !.cur = up, !.pc = IF Len(up) >= MaxDepth THEN "dec" ELSE "create"]
  <1>1. /\ UNCHANGED <<layerMap, refs, cache, parent, panicked, mounts, locks, disk, data>>
        /\ op[p].pc = "idle" /\ p \notin refs[c]
        /\ up # <<>> => layerL = NoProc /\ up \in layerMap
        /\ count' = IF up = <<>> THEN count ELSE [count EXCEPT ![up] = count[up] + 1]
        /\ op' = [op EXCEPT ![p] = o]
    BY DEF Register, At, Retain
  <1>2. up \in Bases /\ (up # <<>> => up \in Chains) /\ <<>> \notin Chains
    BY ChainFacts DEF Bases
  <1>3. up = <<>> => ~(Len(up) >= MaxDepth)
    BY BoundsAssumption, EmptySeq
  <1>4. o \in Calls /\ o.l = c /\ o.cur = up /\ o.pc \in {"dec", "create"} /\ (up = <<>> => o.pc = "create")
    <2>1. Idle \in Calls /\ c \in Bases
      BY IdleFacts DEF Bases
    <2> QED BY <1>2, <1>3, <2>1 DEF Calls
  <1> HIDE DEF o, up
  <1>5. op' \in [Procs -> Calls] /\ op'[p] = o /\ \A q \in Procs : q # p => op'[q] = op[q]
    BY <1>1, <1>4, NewCall
  <1>6. /\ count' \in [Chains -> Nat]
        /\ up # <<>> => count'[up] = count[up] + 1
        /\ \A d \in Chains : d # up => count'[d] = count[d]
    BY <1>1, <1>2 DEF MemoryType
  <1>7. MemoryType' /\ CallsType'
    BY <1>1, <1>5, <1>6 DEF MemoryType, CallsType, locks
  <1>8. DiskType' /\ Parents' /\ MountsType' /\ NoStaleMount' /\ DataType' /\ panicked' = FALSE
    BY <1>1, DiskSame, MountsSame, DataSame DEF disk, data
  <1>9. \A d : Children(d)' = Children(d) /\ MountsOn(d)' = MountsOn(d)
    BY <1>1 DEF Children, MountsOn
  <1>10. /\ \A d \in Chains : d # up => Retainers(d)' = Retainers(d)
         /\ up # <<>> => Cardinality(Retainers(up)') = Cardinality(Retainers(up)) + 1
    <2>1. \A d \in Chains : ~Retains(op[p], d)
      BY <1>1 DEF Retains
    <2>2. \A d \in Chains : Retains(o, d) <=> d = up
      BY <1>4 DEF Retains
    <2> QED BY <1>1, <1>2, <1>4, <2>1, <2>2, RetainersGain
  <1>11. ASSUME up # <<>> PROVE Counted(up)'
    <2>1. count'[up] = count[up] + 0 + 0 + 1
      BY <1>2, <1>6, <1>11 DEF MemoryType
    <2> QED BY <1>1, <1>2, <1>9, <1>10, <1>11, <2>1, NewCount DEF up
  <1>12. \A d \in Chains : d # up => Counted(d)'
    BY <1>1, <1>6, <1>9, <1>10, SameCount
  <1>13. CallOK(p)'
    BY <1>1, <1>2, <1>4, <1>5 DEF CallOK, up
  <1>14. ASSUME NEW q \in Procs, q # p PROVE CallOK(q)'
    <2>1. layerL = q => layerL' = q /\ count' = count /\ layerMap' = layerMap
      BY <1>1, ProcsAssumption DEF locks
    <2> QED BY <1>1, <1>5, <1>14, <2>1, OthersKeep DEF locks
  <1>15. \A d \in Chains : Counted(d)'
    BY <1>2, <1>11, <1>12 DEF up
  <1> QED BY <1>7, <1>8, <1>13, <1>14, <1>15 DEF Counts, CallsOK

\* The layer that is entered has no handle, and nothing is on it; its parent passes from the
\* call that has retained it to the layer.
LEMMA EnterKeeps ==
  ASSUME StoreInv, NEW p \in Procs, NEW c \in Chains, c = op[p].l, op[p].pc = "commit",
         layerL = NoProc, c \notin layerMap,
         meta' = [meta EXCEPT ![c] = [state |-> "full", cache |-> op[p].new, parent |-> op[p].cur]],
         layerMap' = layerMap \cup {c},
         count' = [count EXCEPT ![c] = 1],
         refs' = [refs EXCEPT ![c] = {p}],
         cache' = [cache EXCEPT ![c] = op[p].new],
         parent' = [parent EXCEPT ![c] = op[p].cur],
         Return(p),
         UNCHANGED <<panicked, mounts, mountMeta, data>>
  PROVE  StoreInv'
  <1> USE DEF StoreInv
  <1>1. PICK up \in Bases : up = op[p].cur /\ up = Front(c)
    BY CallFields DEF CallsOK, CallOK
  <1>2. op[p].new \in Ids /\ (up # <<>> => up \in Chains)
    BY CallFields DEF Bases
  <1>3. count[c] = 0 /\ refs[c] = {} /\ Children(c) = {} /\ MountsOn(c) = {} /\ Retainers(c) = {}
    BY CountFacts
  <1>4. up # c
    BY <1>1, <1>3 DEF Retainers
  <1>5. MemoryType'
    BY <1>1, <1>2 DEF MemoryType
  <1>6. DiskType' /\ Parents'
    <2>1. [state |-> "full", cache |-> op[p].new, parent |-> op[p].cur] \in Metas
      BY <1>1, <1>2 DEF Metas, Ids
    <2>2. /\ meta' \in [Chains -> Metas] /\ meta'[c].parent = Front(c)
          /\ \A d \in Chains : d # c => meta'[d] = meta[d]
      BY <1>1, <2>1 DEF DiskType
    <2> QED BY <2>2 DEF DiskType, Parents, MetaOK
  <1>7. MountsType' /\ NoStaleMount' /\ DataType' /\ panicked' = FALSE
    BY MountsSame, DataSame DEF data
  <1>8. /\ op' = [op EXCEPT ![p] = Idle] /\ CallsType' /\ CallOK(p)'
        /\ \A q \in Procs : q # p /\ mountL = q => mountL' = q
    BY ReturnFacts
  <1>9. /\ \A q \in Procs : q # p => op'[q] = op[q]
        /\ \A d \in Chains : d # up => Retainers(d)' = Retainers(d)
        /\ up # <<>> => Cardinality(Retainers(up)') = Cardinality(Retainers(up)) + (-1)
    <2>1. \A q \in Procs : q # p => op'[q] = op[q]
      BY <1>8, IdleFacts, NewCall
    <2>2. \A d \in Chains : Retains(op[p], d) <=> d = up
      BY <1>1 DEF Retains
    <2> QED BY <1>2, <1>8, <2>1, <2>2, IdleFacts, RetainersLose
  <1>10. \A d : MountsOn(d)' = MountsOn(d)
    BY DEF MountsOn
  <1>11. Counted(c)'
    <2>1. Children(c)' = {}
      BY <1>1, <1>3, <1>4 DEF Children, MemoryType
    <2>2. count'[c] = 1 /\ refs'[c] = {p} /\ c \in layerMap'
      BY DEF MemoryType
    <2>3. MountsOn(c)' = {} /\ Retainers(c)' = {}
      BY <1>3, <1>4, <1>9, <1>10
    <2>4. Cardinality({p}) = 1 /\ Cardinality({}) = 0
      BY FS_Singleton, FS_EmptySet
    <2>5. /\ Cardinality(refs'[c]) = 1 /\ Cardinality(Children(c)') = 0
          /\ Cardinality(MountsOn(c)') = 0 /\ Cardinality(Retainers(c)') = 0
      BY <2>1, <2>2, <2>3, <2>4
    <2>6. count'[c] = Cardinality(refs'[c]) + Cardinality(Children(c)') + Cardinality(MountsOn(c)')
                      + Cardinality(Retainers(c)')
      BY <2>2, <2>5
    <2> QED BY <2>2, <2>6 DEF Counted
  <1>12. /\ \A d \in Chains : d # c => count'[d] = count[d] /\ refs'[d] = refs[d]
         /\ \A d \in Chains : d \in layerMap => d \in layerMap'
    BY DEF MemoryType
  <1>13. ASSUME up # <<>> PROVE Counted(up)'
    <2>1. Children(up)' = Children(up) \cup {c} /\ c \notin Children(up)
      BY <1>1, <1>13 DEF Children, MemoryType
    <2>2. Cardinality(Children(up)') = Cardinality(Children(up)) + 1
      BY <1>2, <1>13, <2>1, Finite, OneMore
    <2>3. /\ count[up] = Cardinality(refs[up]) + Cardinality(Children(up)) + Cardinality(MountsOn(up))
                          + Cardinality(Retainers(up))
          /\ Cardinality(refs[up]) \in Nat /\ Cardinality(Children(up)) \in Nat
          /\ Cardinality(MountsOn(up)) \in Nat /\ Cardinality(Retainers(up)) \in Nat
          /\ up \notin layerMap => count[up] = 0
      BY <1>2, <1>13, CountFacts, Finite
    <2>4. count'[up] = Cardinality(refs'[up]) + Cardinality(Children(up)') + Cardinality(MountsOn(up)')
                       + Cardinality(Retainers(up)')
      BY <1>2, <1>4, <1>9, <1>10, <1>12, <1>13, <2>2, <2>3
    <2>5. up \notin layerMap' => count'[up] = 0
      BY <1>2, <1>4, <1>12, <1>13, <2>3
    <2> QED BY <2>4, <2>5 DEF Counted
  <1>14. \A d \in Chains : d # c /\ d # up => Counted(d)'
    <2>1. \A d \in Chains : d # c /\ d # up => Children(d)' = Children(d)
      BY <1>1 DEF Children, MemoryType
    <2> QED BY <1>9, <1>10, <1>12, <2>1, SameCount
  <1>15. \A d \in Chains : Counted(d)'
    BY <1>11, <1>13, <1>14, ChainFacts
  <1>16. ASSUME NEW q \in Procs, q # p PROVE CallOK(q)'
    <2>1. layerL # q
      BY ProcsAssumption
    <2>2. \A d \in Chains : q \in refs'[d] => q \in refs[d]
      BY <1>16 DEF MemoryType
    <2> QED BY <1>8, <1>9, <1>16, <2>1, <2>2, OthersKeep
  <1> QED BY <1>5, <1>6, <1>7, <1>8, <1>15, <1>16 DEF Counts, CallsOK

LEMMA RegisterCommitKeeps ==
  ASSUME StoreInv, NEW p \in Procs, RegisterCommit(p)
  PROVE  StoreInv'
  <1> USE DEF StoreInv
  <1>1. PICK c \in Chains : c = op[p].l
    BY DEF RegisterCommit, At, CallsOK, CallOK
  <1>2. /\ op[p].pc = "commit" /\ layerL = NoProc /\ UNCHANGED <<panicked, mounts, mountMeta, data>>
        /\ op[p].cur = Front(c) /\ p \notin refs[c]
    BY <1>1 DEF RegisterCommit, At, CallsOK, CallOK
  <1>3. MountsType' /\ NoStaleMount' /\ DataType' /\ panicked' = FALSE
    BY <1>2, MountsSame, DataSame DEF data
  <1>4. ASSUME Goto(p, "cleanup")
        PROVE  \E o \in Calls : /\ op' = [op EXCEPT ![p] = o]
                                /\ o.pc = "cleanup" /\ o.l = c /\ o.cur = op[p].cur
                                /\ op' \in [Procs -> Calls] /\ op'[p] = o
                                /\ \A q \in Procs : q # p => op'[q] = op[q]
                                /\ \A d \in Chains : Retains(o, d) <=> Retains(op[p], d)
    <2>1. PICK o \in Calls : /\ op' = [op EXCEPT ![p] = o]
                            /\ o.pc = "cleanup" /\ o.l = c /\ o.cur = op[p].cur
      BY <1>1, <1>4, GotoFacts
    <2>2. op' \in [Procs -> Calls] /\ op'[p] = o /\ \A q \in Procs : q # p => op'[q] = op[q]
      BY <2>1, NewCall
    <2>3. \A d \in Chains : Retains(o, d) <=> Retains(op[p], d)
      BY <1>2, <2>1 DEF Retains
    <2> QED BY <2>1, <2>2, <2>3
  <1>5. CASE /\ c \in layerMap
             /\ count' = Retain(c)
             /\ refs' = [refs EXCEPT ![c] = @ \cup {p}]
             /\ Goto(p, "cleanup")
             /\ UNCHANGED <<layerMap, cache, parent, locks, meta>>
    <2>1. PICK o \in Calls : /\ op' = [op EXCEPT ![p] = o]
                            /\ o.pc = "cleanup" /\ o.l = c /\ o.cur = op[p].cur
                            /\ op' \in [Procs -> Calls] /\ op'[p] = o
                            /\ \A q \in Procs : q # p => op'[q] = op[q]
                            /\ \A d \in Chains : Retains(o, d) <=> Retains(op[p], d)
      BY <1>4, <1>5
    <2>2. /\ count' \in [Chains -> Nat] /\ count'[c] = count[c] + 1
          /\ \A d \in Chains : d # c => count'[d] = count[d]
      BY <1>5 DEF MemoryType, Retain
    <2>3. /\ refs' \in [Chains -> SUBSET Procs] /\ refs'[c] = refs[c] \cup {p}
          /\ \A d \in Chains : d # c => refs'[d] = refs[d]
      BY <1>5 DEF MemoryType
    <2>4. MemoryType' /\ CallsType' /\ DiskType' /\ Parents'
      BY <1>2, <1>5, <2>1, <2>2, <2>3, DiskSame DEF MemoryType, CallsType, locks
    <2>5. \A d \in Chains : /\ Children(d)' = Children(d) /\ MountsOn(d)' = MountsOn(d)
                           /\ Retainers(d)' = Retainers(d)
      <3>1. \A d \in Chains : Retainers(d)' = Retainers(d)
        <4>1. op' = [op EXCEPT ![p] = o] /\ CallsType
          BY <2>1
        <4>2. \A d \in Chains : Retains(o, d) <=> Retains(op[p], d)
          BY <1>2, <2>1 DEF Retains
        <4> QED BY <4>1, <4>2, RetainersSame
      <3> QED BY <1>2, <1>5, <3>1 DEF Children, MountsOn
    <2>6. Counted(c)'
      <3>1. Cardinality(refs'[c]) = Cardinality(refs[c]) + 1
        BY <1>2, <2>3, Finite, OneMore
      <3>2. count'[c] = count[c] + 1 + 0 + 0 /\ c \in layerMap'
        BY <1>5, <2>2 DEF MemoryType
      <3> QED BY <2>5, <3>1, <3>2, NewCount
    <2>7. \A d \in Chains : d # c => Counted(d)'
      BY <1>5, <2>2, <2>3, <2>5, SameCount
    <2>8. CallOK(p)'
      BY <1>2, <2>1 DEF CallOK
    <2>9. ASSUME NEW q \in Procs, q # p PROVE CallOK(q)'
      <3>1. layerL # q
        BY <1>2, ProcsAssumption
      <3>2. \A d \in Chains : q \in refs'[d] => q \in refs[d]
        BY <2>3, <2>9
      <3> QED BY <1>2, <1>5, <2>1, <2>9, <3>1, <3>2, OthersKeep DEF locks
    <2> QED BY <1>3, <2>4, <2>6, <2>7, <2>8, <2>9 DEF Counts, CallsOK
  <1>6. CASE /\ c \notin layerMap
             /\ meta' = [meta EXCEPT ![c] = [state |-> "full", cache |-> op[p].new, parent |-> op[p].cur]]
             /\ layerMap' = layerMap \cup {c}
             /\ count' = [count EXCEPT ![c] = 1]
             /\ refs' = [refs EXCEPT ![c] = {p}]
             /\ cache' = [cache EXCEPT ![c] = op[p].new]
             /\ parent' = [parent EXCEPT ![c] = op[p].cur]
             /\ Return(p)
    BY <1>1, <1>2, <1>6, EnterKeeps
  <1>7. CASE Goto(p, "cleanup") /\ UNCHANGED <<layerMap, count, refs, cache, parent, locks, meta>>
    <2>1. PICK o \in Calls : /\ op' = [op EXCEPT ![p] = o]
                            /\ o.pc = "cleanup" /\ o.l = c /\ o.cur = op[p].cur
                            /\ op' \in [Procs -> Calls] /\ op'[p] = o
                            /\ \A d \in Chains : Retains(o, d) <=> Retains(op[p], d)
      BY <1>4, <1>7
    <2>2. CallOK(p)'
      BY <1>2, <2>1 DEF CallOK
    <2>3. CallsType' /\ Counts' /\ CallsOK'
      BY <1>2, <1>7, <2>1, <2>2, GoOnKeeps DEF memory
    <2>4. MemoryType' /\ DiskType' /\ Parents'
      BY <1>2, <1>7, MemorySame, DiskSame
    <2> QED BY <1>3, <2>3, <2>4
  <1> QED BY <1>1, <1>5, <1>6, <1>7 DEF RegisterCommit

\* What an error or a crash may leave of a layer's metadata.
LEMMA LeftoverFacts ==
  ASSUME DiskType, Parents, NEW c \in Chains, NEW mt \in Leftovers(meta[c])
  PROVE  mt \in Metas /\ mt.parent \in {<<>>, Front(c)}
  <1>1. meta[c] \in Metas /\ meta[c].parent \in {<<>>, Front(c)}
    BY DEF DiskType, Parents, MetaOK
  <1>2. NoMeta \in Metas /\ [NoMeta EXCEPT !.state = "partial"] \in Metas
    BY BoundsAssumption DEF NoMeta, Metas, Bases
  <1>3. [meta[c] EXCEPT !.parent = <<>>] \in Metas
    BY <1>1 DEF Metas, Bases
  <1>4. /\ NoMeta.parent = <<>> /\ [NoMeta EXCEPT !.state = "partial"].parent = <<>>
        /\ [meta[c] EXCEPT !.parent = <<>>].parent = <<>>
    BY <1>1 DEF NoMeta, Metas
  <1> QED BY <1>1, <1>2, <1>3, <1>4 DEF Leftovers

\* The deleted layer has nothing on it; its place on its parent is taken by the call, which
\* releases the parent next.
LEMMA RemoveMetaKeeps ==
  ASSUME StoreInv, NEW p \in Procs, RemoveMeta(p)
  PROVE  StoreInv'
  <1> USE DEF StoreInv
  <1>1. PICK c \in Chains : c = op[p].cur
    BY DEF RemoveMeta, At, CallsOK, CallOK
  <1>2. PICK up \in Bases : up = parent[c]
    BY DEF MemoryType
  <1>3. /\ op[p].pc = "rmmeta" /\ UNCHANGED <<count, refs, panicked, mounts, mountMeta, data>>
        /\ layerL = p /\ c \in layerMap /\ count[c] = 0
    BY <1>1 DEF RemoveMeta, At, CallsOK, CallOK
  <1>4. MountsType' /\ NoStaleMount' /\ DataType' /\ panicked' = FALSE
    BY <1>3, MountsSame, DataSame DEF data
  <1>5. ASSUME NEW mt \in Metas, mt.parent \in {<<>>, Front(c)}, meta' = [meta EXCEPT ![c] = mt]
        PROVE  DiskType' /\ Parents'
    <2>1. meta' \in [Chains -> Metas] /\ meta'[c] = mt /\ \A d \in Chains : d # c => meta'[d] = meta[d]
      BY <1>5 DEF DiskType
    <2> QED BY <1>3, <1>5, <2>1 DEF DiskType, Parents, MetaOK
  <1>6. CASE /\ meta' = [meta EXCEPT ![c] = NoMeta]
             /\ layerMap' = layerMap \ {c}
             /\ cache' = [cache EXCEPT ![c] = 0]
             /\ parent' = [parent EXCEPT ![c] = <<>>]
             /\ IF up = <<>> THEN Return(p)
                ELSE op' = [op EXCEPT ![p].pc = "dec", ![p].cur = up] /\ UNCHANGED locks
    <2>1. DiskType' /\ Parents'
      <3>1. NoMeta \in Metas /\ NoMeta.parent = <<>>
        BY BoundsAssumption DEF NoMeta, Metas, Bases
      <3> QED BY <1>5, <1>6, <3>1
    <2>2. MemoryType'
      <3>1. 0 \in Ids /\ <<>> \in Bases
        BY BoundsAssumption DEF Ids, Bases
      <3> QED BY <1>3, <1>6, <3>1 DEF MemoryType
    <2>3. refs[c] = {} /\ Children(c) = {} /\ MountsOn(c) = {} /\ Retainers(c) = {}
      BY <1>3, CountFacts
    <2>4. up # c
      BY <1>2, <1>3, <2>3 DEF Children
    <2>5. up # <<>> => up \in Chains
      BY DEF Bases
    <2>6. PICK o \in Calls :
            /\ op' = [op EXCEPT ![p] = o]
            /\ IF up = <<>> THEN o = Idle ELSE o.pc = "dec" /\ o.cur = up
      BY <1>6, IdleFacts, GotoRelease DEF Return
    <2>7. op' \in [Procs -> Calls] /\ op'[p] = o /\ \A q \in Procs : q # p => op'[q] = op[q]
      BY <2>6, NewCall
    <2>8. /\ CallsType'
          /\ \A q \in Procs : q # p /\ mountL = q => mountL' = q
      BY <1>6, <2>7 DEF CallsType, Return, locks
    <2>9. CallOK(p)'
      BY <2>5, <2>6, <2>7, IdleFacts DEF CallOK
    <2>10. ASSUME NEW q \in Procs, q # p PROVE CallOK(q)'
      BY <1>3, <2>7, <2>8, <2>10, OthersKeep
    <2>11. \A d : MountsOn(d)' = MountsOn(d)
      BY <1>3 DEF MountsOn
    <2>12. /\ \A d \in Chains : d # up => Retainers(d)' = Retainers(d)
           /\ up # <<>> => Cardinality(Retainers(up)') = Cardinality(Retainers(up)) + 1
      <3>1. \A d \in Chains : ~Retains(op[p], d)
        BY <1>3 DEF Retains
      <3>2. \A d \in Chains : Retains(o, d) <=> d = up
        BY <2>6, IdleFacts, ChainFacts DEF Retains
      <3> QED BY <2>5, <2>6, <3>1, <3>2, RetainersGain
    <2>13. /\ Children(c)' = {}
           /\ \A d \in Chains : d # c /\ d # up => Children(d)' = Children(d)
           /\ up # <<>> => Children(up)' = Children(up) \ {c} /\ c \in Children(up)
      <3>1. \A d \in Chains : d # c => parent'[d] = parent[d]
        BY <1>6 DEF MemoryType
      <3>2. layerMap \subseteq Chains
        BY DEF MemoryType
      <3>3. Children(c)' = {}
        BY <1>6, <2>3, <3>1, <3>2 DEF Children
      <3>4. \A d \in Chains : d # c /\ d # up => Children(d)' = Children(d)
        BY <1>2, <1>6, <3>1, <3>2 DEF Children
      <3>5. Children(up)' = Children(up) \ {c} /\ c \in Children(up)
        BY <1>2, <1>3, <1>6, <3>1, <3>2 DEF Children
      <3> QED BY <3>3, <3>4, <3>5
    <2>14. Counted(c)'
      <3>1. MountsOn(c)' = {} /\ Retainers(c)' = {} /\ refs'[c] = {} /\ count'[c] = 0
        BY <1>3, <2>3, <2>4, <2>11, <2>12
      <3>2. /\ Cardinality(refs'[c]) = 0 /\ Cardinality(Children(c)') = 0
            /\ Cardinality(MountsOn(c)') = 0 /\ Cardinality(Retainers(c)') = 0
        BY <2>13, <3>1, FS_EmptySet
      <3>3. count'[c] = Cardinality(refs'[c]) + Cardinality(Children(c)') + Cardinality(MountsOn(c)')
                        + Cardinality(Retainers(c)')
        BY <3>1, <3>2
      <3> QED BY <3>1, <3>3 DEF Counted
    <2>15. ASSUME up # <<>> PROVE Counted(up)'
      <3>1. Cardinality(Children(up)') = Cardinality(Children(up)) - 1
        BY <2>5, <2>13, <2>15, Finite, OneLess
      <3>2. /\ count[up] = Cardinality(refs[up]) + Cardinality(Children(up)) + Cardinality(MountsOn(up))
                          + Cardinality(Retainers(up))
            /\ Cardinality(refs[up]) \in Nat /\ Cardinality(Children(up)) \in Nat
            /\ Cardinality(MountsOn(up)) \in Nat /\ Cardinality(Retainers(up)) \in Nat
            /\ up \notin layerMap => count[up] = 0
        BY <2>5, <2>15, CountFacts, Finite
      <3>3. count'[up] = Cardinality(refs'[up]) + Cardinality(Children(up)') + Cardinality(MountsOn(up)')
                       + Cardinality(Retainers(up)')
        BY <1>3, <2>11, <2>12, <2>15, <3>1, <3>2
      <3>4. up \notin layerMap' => count'[up] = 0
        BY <1>3, <1>6, <2>4, <3>2
      <3> QED BY <3>3, <3>4 DEF Counted
    <2>16. \A d \in Chains : d # c /\ d # up => Counted(d)'
      BY <1>3, <1>6, <2>11, <2>12, <2>13, SameCount
    <2>17. \A d \in Chains : Counted(d)'
      BY <2>5, <2>14, <2>15, <2>16, ChainFacts
    <2> QED BY <1>4, <2>1, <2>2, <2>8, <2>9, <2>10, <2>17 DEF Counts, CallsOK
  <1>7. CASE /\ \E mt \in Leftovers(meta[c]) : meta' = [meta EXCEPT ![c] = mt]
             /\ Return(p) /\ UNCHANGED <<layerMap, cache, parent>>
    <2>1. DiskType' /\ Parents'
      BY <1>5, <1>7, LeftoverFacts
    <2>2. MemoryType'
      BY <1>3, <1>7, MemorySame
    <2>3. CallsType' /\ Counts' /\ CallsOK'
      BY <1>3, <1>7, ReturnKeeps
    <2> QED BY <1>4, <2>1, <2>2, <2>3
  <1> QED BY <1>1, <1>2, <1>6, <1>7 DEF RemoveMeta

\* What saveMount has written, and what is left of the files of a mount.
LEMMA FilesFacts ==
  ASSUME CallsType, DiskType
  PROVE  /\ \A p \in Procs, n \in 0..3 : Mount(p) \in Mounts => Saved(p, n) \in Files
         /\ \A f \in Files : MountLeftovers(f) \subseteq Files
  <1>1. ASSUME NEW p \in Procs, NEW n \in 0..3, Mount(p) \in Mounts PROVE Saved(p, n) \in Files
    <2>1. mountMeta[Mount(p)] \in Files
      BY <1>1 DEF DiskType
    <2>2. op[p].new \in Ids /\ op[p].init \in Ids /\ op[p].cur \in Bases
      BY CallFields
    <2> QED BY <2>1, <2>2 DEF Saved, Files
  <1>2. ASSUME NEW f \in Files PROVE MountLeftovers(f) \subseteq Files
    <2>1. 0 \in Ids /\ <<>> \in Bases
      BY BoundsAssumption DEF Ids, Bases
    <2> QED BY <2>1 DEF MountLeftovers, Files
  <1> QED BY <1>1, <1>2

\* The layer that the call has retained passes to the mount.
LEMMA SaveMountKeeps ==
  ASSUME StoreInv, NEW p \in Procs, SaveMount(p)
  PROVE  StoreInv'
  <1> USE DEF StoreInv
  <1>1. PICK m \in Mounts : m = Mount(p) /\ ~mounts[m].in /\ mountL = p
    BY MountFacts DEF SaveMount, At
  <1>2. PICK c \in Chains : c = op[p].cur
    BY DEF SaveMount, At, CallsOK, CallOK
  <1>3. op[p].pc = "save" /\ UNCHANGED <<memory, meta, data>>
    BY DEF SaveMount, At
  <1>4. MemoryType' /\ DataType' /\ panicked' = FALSE
    BY <1>3, MemorySame, DataSame DEF memory, data
  <1>5. ASSUME NEW n \in 0..3, mountMeta' = [mountMeta EXCEPT ![m] = Saved(p, n)]
        PROVE  DiskType' /\ Parents'
    <2>1. Saved(p, n) \in Files
      BY <1>1, FilesFacts
    <2> QED BY <1>3, <1>5, <2>1 DEF DiskType, Parents, MetaOK
  <1>6. CASE /\ mountMeta' = [mountMeta EXCEPT ![m] = Saved(p, 3)]
             /\ mounts' = [mounts EXCEPT ![m] = [in |-> TRUE, parent |-> op[p].cur, rw |-> op[p].new,
                                                 init |-> op[p].init, refs |-> {p}]]
             /\ Return(p)
    <2>1. DiskType' /\ Parents'
      BY <1>5, <1>6
    <2>2. op[p].new \in Ids /\ op[p].init \in Ids /\ c \in Bases
      BY CallFields DEF Bases
    <2>3. /\ MountsType'
          /\ mounts'[m].in /\ mounts'[m].parent = c
          /\ \A n \in Mounts : n # m => mounts'[n] = mounts[n]
      BY <1>2, <1>6, <2>2 DEF MountsType
    <2>4. NoStaleMount'
      BY <2>3 DEF NoStaleMount, MountOK
    <2>5. /\ op' = [op EXCEPT ![p] = Idle] /\ CallsType' /\ CallOK(p)'
          /\ \A q \in Procs : q # p /\ layerL = q => layerL' = q
      BY <1>6, ReturnFacts
    <2>6. \A q \in Procs : q # p => op'[q] = op[q]
      BY <2>5, IdleFacts, NewCall
    <2>7. /\ Cardinality(Retainers(c)') = Cardinality(Retainers(c)) + (-1)
          /\ \A d \in Chains : d # c => Retainers(d)' = Retainers(d)
      <3>1. \A d \in Chains : Retains(op[p], d) <=> d = c
        BY <1>2, <1>3 DEF Retains
      <3> QED BY <2>5, <3>1, IdleFacts, RetainersLose
    <2>8. /\ MountsOn(c)' = MountsOn(c) \cup {m} /\ m \notin MountsOn(c)
          /\ \A d \in Chains : d # c => MountsOn(d)' = MountsOn(d)
      BY <1>1, <2>3 DEF MountsOn
    <2>9. Cardinality(MountsOn(c)') = Cardinality(MountsOn(c)) + 1
      BY <2>8, Finite, OneMore
    <2>10. \A d : Children(d)' = Children(d)
      BY <1>3 DEF Children, memory
    <2>11. Counted(c)'
      <3>1. /\ count[c] = Cardinality(refs[c]) + Cardinality(Children(c)) + Cardinality(MountsOn(c))
                          + Cardinality(Retainers(c))
            /\ Cardinality(refs[c]) \in Nat /\ Cardinality(Children(c)) \in Nat
            /\ Cardinality(MountsOn(c)) \in Nat /\ Cardinality(Retainers(c)) \in Nat
            /\ c \notin layerMap => count[c] = 0
        BY CountFacts, Finite
      <3>2. count'[c] = Cardinality(refs'[c]) + Cardinality(Children(c)') + Cardinality(MountsOn(c)')
                       + Cardinality(Retainers(c)')
        BY <1>3, <2>7, <2>9, <2>10, <3>1 DEF memory
      <3> QED BY <1>3, <3>1, <3>2 DEF Counted, memory
    <2>12. \A d \in Chains : d # c => Counted(d)'
      BY <1>3, <2>7, <2>8, <2>10, SameCount DEF memory
    <2>13. ASSUME NEW q \in Procs, q # p PROVE CallOK(q)'
      <3>1. mountL # q
        BY <1>1, <2>13
      <3> QED BY <1>3, <2>5, <2>6, <2>13, <3>1, OthersKeep DEF memory
    <2> QED BY <1>4, <2>1, <2>3, <2>4, <2>5, <2>11, <2>12, <2>13 DEF Counts, CallsOK
  <1>7. CASE /\ \E n \in 0..2 : mountMeta' = [mountMeta EXCEPT ![m] = Saved(p, n)]
             /\ Fail(p)
             /\ UNCHANGED mounts
    <2>1. DiskType' /\ Parents'
      <3>1. PICK n \in 0..2 : mountMeta' = [mountMeta EXCEPT ![m] = Saved(p, n)]
        BY <1>7
      <3>2. n \in 0..3
        OBVIOUS
      <3> QED BY <1>5, <3>1, <3>2
    <2>2. CallsType' /\ Counts' /\ CallsOK'
      BY <1>3, <1>7, FailKeeps
    <2> QED BY <1>4, <1>7, <2>1, <2>2, MountsSame
  <1> QED BY <1>1, <1>6, <1>7 DEF SaveMount

\* The mount's place on its parent is taken by the call, which releases the parent next.
LEMMA RemoveMountKeeps ==
  ASSUME StoreInv, NEW p \in Procs, RemoveMount(p)
  PROVE  StoreInv'
  <1> USE DEF StoreInv
  <1>1. PICK m \in Mounts : m = Mount(p) /\ mounts[m].in /\ mountL = p
    BY MountFacts DEF RemoveMount, At
  <1>2. PICK up \in Bases : up = mounts[m].parent
    BY DEF MountsType
  <1>3. op[p].pc = "rmmount" /\ UNCHANGED <<memory, meta, data>>
    BY DEF RemoveMount, At
  <1>4. MemoryType' /\ DataType' /\ panicked' = FALSE
    BY <1>3, MemorySame, DataSame DEF memory, data
  <1>5. ASSUME NEW f \in Files, mountMeta' = [mountMeta EXCEPT ![m] = f]
        PROVE  DiskType' /\ Parents'
    BY <1>3, <1>5 DEF DiskType, Parents, MetaOK
  <1>6. CASE /\ mountMeta' = [mountMeta EXCEPT ![m] = NoFiles]
             /\ mounts' = [mounts EXCEPT ![m] = NoMount]
             /\ IF up = <<>> THEN Return(p)
                ELSE /\ op' = [op EXCEPT ![p].pc = "dec", ![p].cur = up]
                     /\ UNCHANGED locks
    <2>1. 0 \in Ids /\ <<>> \in Bases
      BY BoundsAssumption DEF Ids, Bases
    <2>2. DiskType' /\ Parents'
      BY <1>5, <1>6, <2>1 DEF NoFiles, Files
    <2>3. /\ MountsType'
          /\ mounts'[m] = NoMount /\ ~mounts'[m].in
          /\ \A n \in Mounts : n # m => mounts'[n] = mounts[n]
      BY <1>6, <2>1 DEF MountsType, NoMount
    <2>4. NoStaleMount'
      BY <2>3 DEF NoStaleMount, MountOK
    <2>5. up # <<>> => up \in Chains
      BY DEF Bases
    <2>6. PICK o \in Calls :
            /\ op' = [op EXCEPT ![p] = o]
            /\ IF up = <<>> THEN o = Idle ELSE o.pc = "dec" /\ o.cur = up
      BY <1>6, IdleFacts, GotoRelease DEF Return
    <2>7. op' \in [Procs -> Calls] /\ op'[p] = o /\ \A q \in Procs : q # p => op'[q] = op[q]
      BY <2>6, NewCall
    <2>8. /\ CallsType'
          /\ \A q \in Procs : q # p /\ layerL = q => layerL' = q
      BY <1>6, <2>7 DEF CallsType, Return, locks
    <2>9. CallOK(p)'
      BY <2>5, <2>6, <2>7, IdleFacts DEF CallOK
    <2>10. ASSUME NEW q \in Procs, q # p PROVE CallOK(q)'
      <3>1. mountL # q
        BY <1>1, <2>10
      <3> QED BY <1>3, <2>7, <2>8, <2>10, <3>1, OthersKeep DEF memory
    <2>11. /\ \A d \in Chains : d # up => Retainers(d)' = Retainers(d)
           /\ up # <<>> => Cardinality(Retainers(up)') = Cardinality(Retainers(up)) + 1
      <3>1. \A d \in Chains : ~Retains(op[p], d)
        BY <1>3, ChainFacts DEF CallsOK, CallOK, Retains
      <3>2. \A d \in Chains : Retains(o, d) <=> d = up
        BY <2>6, IdleFacts, ChainFacts DEF Retains
      <3> QED BY <2>5, <2>6, <3>1, <3>2, RetainersGain
    <2>12. /\ MountsOn(up)' = MountsOn(up) \ {m} /\ m \in MountsOn(up)
           /\ \A d \in Chains : d # up => MountsOn(d)' = MountsOn(d)
      BY <1>1, <1>2, <2>3 DEF MountsOn
    <2>13. \A d : Children(d)' = Children(d)
      BY <1>3 DEF Children, memory
    <2>14. ASSUME up # <<>> PROVE Counted(up)'
      <3>1. Cardinality(MountsOn(up)') = Cardinality(MountsOn(up)) + (-1)
        <4>1. Cardinality(MountsOn(up)') = Cardinality(MountsOn(up)) - 1
          BY <2>5, <2>12, <2>14, Finite, OneLess
        <4> QED BY <2>5, <2>14, <4>1, Finite
      <3>2. /\ count[up] = Cardinality(refs[up]) + Cardinality(Children(up)) + Cardinality(MountsOn(up))
                          + Cardinality(Retainers(up))
            /\ Cardinality(refs[up]) \in Nat /\ Cardinality(Children(up)) \in Nat
            /\ Cardinality(MountsOn(up)) \in Nat /\ Cardinality(Retainers(up)) \in Nat
            /\ up \notin layerMap => count[up] = 0
        BY <2>5, <2>14, CountFacts, Finite
      <3>3. count'[up] = Cardinality(refs'[up]) + Cardinality(Children(up)') + Cardinality(MountsOn(up)')
                       + Cardinality(Retainers(up)')
        BY <1>3, <2>11, <2>13, <2>14, <3>1, <3>2 DEF memory
      <3> QED BY <1>3, <3>2, <3>3 DEF Counted, memory
    <2>15. \A d \in Chains : d # up => Counted(d)'
      BY <1>3, <2>11, <2>12, <2>13, SameCount DEF memory
    <2>16. \A d \in Chains : Counted(d)'
      BY <2>5, <2>14, <2>15, ChainFacts
    <2> QED BY <1>4, <2>2, <2>3, <2>4, <2>8, <2>9, <2>10, <2>16 DEF Counts, CallsOK
  <1>7. CASE /\ \E f \in MountLeftovers(mountMeta[m]) : mountMeta' = [mountMeta EXCEPT ![m] = f]
             /\ Retake(p)
    <2>1. DiskType' /\ Parents'
      <3>1. mountMeta[m] \in Files
        BY DEF DiskType
      <3> QED BY <1>5, <1>7, <3>1, FilesFacts
    <2>2. MountsType' /\ NoStaleMount' /\ CallsType' /\ Counts' /\ CallsOK'
      BY <1>3, <1>7, RetakeKeeps
    <2> QED BY <1>4, <2>1, <2>2
  <1> QED BY <1>1, <1>2, <1>6, <1>7 DEF RemoveMount

-------------------------------------------------------------------------------
(* The daemon dies                                                             *)

\* What is on the disk then.
LEMMA DyingDisk ==
  ASSUME StoreInv, Crash
  PROVE  DiskType' /\ Parents'
  <1> USE DEF StoreInv
  <1>1. /\ meta' \in [Chains -> UNION {DyingMeta(c) : c \in Chains}]
        /\ \A c \in Chains : meta'[c] \in DyingMeta(c)
        /\ mountMeta' \in [Mounts -> UNION {DyingMount(m) : m \in Mounts}]
        /\ \A m \in Mounts : mountMeta'[m] \in DyingMount(m)
    BY DEF Crash
  <1>2. ASSUME NEW c \in Chains, NEW mt \in DyingMeta(c)
        PROVE  mt \in Metas /\ mt.parent \in {<<>>, Front(c)}
    <2>1. mt \in Leftovers(meta[c])
      BY <1>2 DEF DyingMeta, Leftovers
    <2> QED BY <2>1, LeftoverFacts
  <1>3. ASSUME NEW m \in Mounts, NEW f \in DyingMount(m) PROVE f \in Files
    <2>1. mountMeta[m] \in Files
      BY DEF DiskType
    <2>2. CASE f = mountMeta[m]
      BY <2>1, <2>2
    <2>3. CASE \E p \in Procs : Mount(p) = m /\ \E n \in 0..3 : f = Saved(p, n)
      BY <2>3, FilesFacts
    <2>4. CASE f \in MountLeftovers(mountMeta[m])
      BY <2>1, <2>4, FilesFacts
    <2> QED BY <1>3, <2>2, <2>3, <2>4 DEF DyingMount
  <1>4. meta' \in [Chains -> Metas]
    BY <1>1, <1>2
  <1>5. mountMeta' \in [Mounts -> Files]
    BY <1>1, <1>3
  <1>6. Parents'
    BY <1>1, <1>2 DEF Parents, MetaOK
  <1> QED BY <1>4, <1>5, <1>6 DEF DiskType

\* The counts of a store that was loaded are exact: what a loaded layer or mount needs was
\* loaded, and nobody else holds anything.
LEMMA CrashKeeps ==
  ASSUME StoreInv, Crash
  PROVE  StoreInv'
  <1> USE DEF StoreInv
  <1>1. DiskType' /\ Parents'
    BY DyingDisk
  <1>2. PICK mt \in [Chains -> Metas], mm \in [Mounts -> Files] :
          /\ mt = meta' /\ mm = mountMeta'
          /\ \A c \in Chains : mt[c].parent \in {<<>>, Front(c)}
    BY <1>1 DEF DiskType, Parents, MetaOK
  <1>3. /\ layerMap' = {c \in Chains : Loadable(mt, c)}
        /\ count' = [c \in Chains |-> IF c \in layerMap' THEN LoadedCount(mt, mm, c) ELSE 0]
        /\ refs' = [c \in Chains |-> {}]
        /\ cache' = [c \in Chains |-> IF c \in layerMap' THEN mt[c].cache ELSE 0]
        /\ parent' = [c \in Chains |-> IF c \in layerMap' THEN mt[c].parent ELSE <<>>]
        /\ mounts' = [m \in Mounts |->
             IF MountLoadable(mt, mm[m])
             THEN [in |-> TRUE, parent |-> mm[m].parent, rw |-> mm[m].rw, init |-> mm[m].init, refs |-> {}]
             ELSE NoMount]
        /\ layerL' = NoProc /\ mountL' = NoProc
        /\ op' = [p \in Procs |-> Idle]
        /\ panicked' = panicked /\ UNCHANGED data
    BY <1>2 DEF Crash
  <1>4. 0 \in Ids /\ <<>> \in Bases
    BY BoundsAssumption DEF Ids, Bases
  <1>5. ASSUME NEW c \in Chains
        PROVE  /\ Children(c)' = {d \in Chains : Loadable(mt, d) /\ mt[d].parent = c}
               /\ MountsOn(c)' = {m \in Mounts : MountLoadable(mt, mm[m]) /\ mm[m].parent = c}
               /\ Retainers(c)' = {} /\ refs'[c] = {}
    <2>1. Children(c)' = {d \in Chains : Loadable(mt, d) /\ mt[d].parent = c}
      BY <1>3 DEF Children
    <2>2. MountsOn(c)' = {m \in Mounts : MountLoadable(mt, mm[m]) /\ mm[m].parent = c}
      <3>1. c # <<>>
        BY ChainFacts
      <3>2. \A m \in Mounts :
              (mounts'[m].in /\ mounts'[m].parent = c) <=> (MountLoadable(mt, mm[m]) /\ mm[m].parent = c)
        BY <1>3, <3>1 DEF NoMount
      <3> QED BY <3>2 DEF MountsOn
    <2>3. Retainers(c)' = {} /\ refs'[c] = {}
      BY <1>3, IdleFacts DEF Retainers
    <2> QED BY <2>1, <2>2, <2>3
  <1>6. ASSUME NEW c \in Chains
        PROVE  LoadedCount(mt, mm, c) = Cardinality(Children(c)') + Cardinality(MountsOn(c)')
    BY <1>5, <1>6 DEF LoadedCount
  <1>7. ASSUME NEW c \in Chains
        PROVE  Cardinality(Children(c)') \in Nat /\ Cardinality(MountsOn(c)') \in Nat
    <2>1. Children(c)' \in SUBSET Chains /\ MountsOn(c)' \in SUBSET Mounts
      BY <1>5, <1>7
    <2> QED BY <2>1, FiniteAssumption, FS_Subset, FS_CardinalityType
  <1>8. MemoryType'
    <2>1. count' \in [Chains -> Nat]
      BY <1>3, <1>6, <1>7
    <2>2. \A c \in Chains : mt[c].cache \in Ids /\ mt[c].parent \in Bases
      BY <1>2 DEF Metas, Ids
    <2> QED BY <1>3, <1>4, <2>1, <2>2 DEF MemoryType
  <1>9. MountsType' /\ NoStaleMount'
    <2>1. \A m \in Mounts : mm[m].rw \in Ids /\ mm[m].init \in Ids /\ mm[m].parent \in Bases
      BY <1>2 DEF Files
    <2>2. MountsType'
      BY <1>3, <1>4, <2>1 DEF MountsType, NoMount
    <2>3. NoStaleMount'
      BY <1>3 DEF NoStaleMount, MountOK
    <2> QED BY <2>2, <2>3
  <1>10. CallsType' /\ CallsOK'
    <2>1. CallsType'
      BY <1>3, IdleFacts DEF CallsType
    <2>2. CallsOK'
      BY <1>3, IdleFacts DEF CallsOK, CallOK
    <2> QED BY <2>1, <2>2
  <1>11. DataType' /\ panicked' = FALSE
    BY <1>3, DataSame DEF data
  <1>12. ASSUME NEW c \in Chains PROVE Counted(c)'
    <2>1. Cardinality(refs'[c]) = 0 /\ Cardinality(Retainers(c)') = 0
      BY <1>5, <1>12, FS_EmptySet
    <2>2. CASE c \in layerMap'
      <3>1. count'[c] = Cardinality(Children(c)') + Cardinality(MountsOn(c)')
        BY <1>3, <1>6, <1>12, <2>2
      <3>2. count'[c] = Cardinality(refs'[c]) + Cardinality(Children(c)') + Cardinality(MountsOn(c)')
                        + Cardinality(Retainers(c)')
        BY <1>7, <1>12, <2>1, <3>1
      <3> QED BY <2>2, <3>2 DEF Counted
    <2>3. CASE c \notin layerMap'
      <3>1. c # <<>> /\ ~Loadable(mt, c) /\ count'[c] = 0
        BY <1>3, <1>12, <2>3, ChainFacts
      <3>2. Children(c)' = {}
        <4>1. \A d \in Chains : ~(Loadable(mt, d) /\ mt[d].parent = c)
          BY <1>2, <3>1, ParentLoadable
        <4> QED BY <1>5, <1>12, <4>1
      <3>3. MountsOn(c)' = {}
        <4>1. \A m \in Mounts : ~(MountLoadable(mt, mm[m]) /\ mm[m].parent = c)
          BY <3>1 DEF MountLoadable
        <4> QED BY <1>5, <1>12, <4>1
      <3>4. Cardinality(Children(c)') = 0 /\ Cardinality(MountsOn(c)') = 0
        BY <3>2, <3>3, FS_EmptySet
      <3>5. count'[c] = Cardinality(refs'[c]) + Cardinality(Children(c)') + Cardinality(MountsOn(c)')
                        + Cardinality(Retainers(c)')
        BY <2>1, <3>1, <3>4
      <3> QED BY <3>1, <3>5 DEF Counted
    <2> QED BY <2>2, <2>3
  <1> QED BY <1>1, <1>8, <1>9, <1>10, <1>11, <1>12 DEF Counts

-------------------------------------------------------------------------------
(* Theorems                                                                    *)

LEMMA InitHolds == Init => StoreInv
  <1> SUFFICES ASSUME Init PROVE StoreInv
    OBVIOUS
  <1>1. 0 \in Ids /\ <<>> \in Bases
    BY BoundsAssumption DEF Ids, Bases
  <1>2. MemoryType
    BY <1>1 DEF Init, MemoryType
  <1>3. MountsType /\ NoStaleMount
    BY <1>1 DEF Init, MountsType, NoStaleMount, MountOK, NoMount
  <1>4. CallsType /\ CallsOK
    BY IdleFacts DEF Init, CallsType, CallsOK, CallOK
  <1>5. DiskType /\ Parents
    <2>1. NoMeta \in Metas /\ NoMeta.parent = <<>> /\ NoFiles \in Files
      BY <1>1 DEF NoMeta, Metas, NoFiles, Files, Ids
    <2> QED BY <2>1 DEF Init, DiskType, Parents, MetaOK
  <1>6. DataType /\ panicked = FALSE
    BY <1>1 DEF Init, DataType
  <1>7. ASSUME NEW c \in Chains PROVE Counted(c)
    <2>1. refs[c] = {} /\ Children(c) = {} /\ MountsOn(c) = {} /\ Retainers(c) = {} /\ count[c] = 0
      BY <1>7, IdleFacts DEF Init, Children, MountsOn, NoMount, Retainers
    <2>2. Cardinality({}) = 0
      BY FS_EmptySet
    <2> QED BY <2>1, <2>2 DEF Counted
  <1> QED BY <1>2, <1>3, <1>4, <1>5, <1>6, <1>7 DEF StoreInv, Counts

LEMMA StepKeeps == StoreInv /\ [Next]_vars => StoreInv'
  <1> SUFFICES ASSUME StoreInv, [Next]_vars PROVE StoreInv'
    OBVIOUS
  <1>1. ASSUME NEW p \in Procs, Enter(p) PROVE StoreInv'
    <2>1. ASSUME NEW c \in Chains, Get(p, c) \/ Release(p, c) \/ Register(p, c) PROVE StoreInv'
      BY <2>1, GetKeeps, ReleaseKeeps, RegisterKeeps
    <2>2. ASSUME NEW m \in Mounts, GetRWLayer(p, m) \/ ReleaseRWLayer(p, m) PROVE StoreInv'
      BY <2>2, GetRWLayerKeeps, ReleaseRWLayerKeeps
    <2>3. ASSUME NEW m \in Mounts, NEW c \in Chains, CreateRWLayer(p, m, c) PROVE StoreInv'
      BY <2>3, CreateRWLayerKeeps
    <2> QED BY <1>1, <2>1, <2>2, <2>3 DEF Enter
  <1>2. ASSUME NEW p \in Procs, Step(p) PROVE StoreInv'
    BY <1>2, DecKeeps, RemoveDataKeeps, RemoveMetaKeeps, RegisterCreateKeeps, RegisterApplyKeeps,
       RegisterCommitKeeps, RegisterCleanupKeeps, InitMountKeeps, CreateReadWriteKeeps, SaveMountKeeps,
       RemoveRWKeeps, RemoveInitKeeps, RemoveMountKeeps DEF Step
  <1>3. CASE Crash
    BY <1>3, CrashKeeps
  <1>4. CASE UNCHANGED vars
    <2> USE <1>4 DEF vars, StoreInv
    <2>1. MemoryType' /\ MountsType' /\ NoStaleMount' /\ DiskType' /\ Parents' /\ DataType'
      BY MemorySame, MountsSame, DiskSame, DataSame
    <2>2. CallsType' /\ panicked' = FALSE
      BY DEF CallsType
    <2>3. CallsOK'
      BY DEF CallsOK, CallOK
    <2>4. \A c \in Chains : Counted(c)'
      BY DEF Counts, Counted, Children, MountsOn, Retainers
    <2> QED BY <2>1, <2>2, <2>3, <2>4 DEF Counts
  <1> QED BY <1>1, <1>2, <1>3, <1>4 DEF Next

\* The counts, the locks and what every call holds, at every moment, whatever fails.
THEOREM StoreInvariant == Spec => []StoreInv
  BY InitHolds, StepKeeps, PTL DEF Spec

\* Types.
THEOREM StoreTypes == Spec => []TypeOK
  <1>1. StoreInv => TypeOK
    BY DEF StoreInv, TypeOK, MemoryType, MountsType, CallsType, DiskType, DataType, Calls, Files, Ids
  <1> QED BY <1>1, StoreInvariant, PTL

\* The count of a layer is the number of its handles, of the layers and mounts on it and of
\* the calls that have retained it, and releaseLayer never panics (layer_store.go:394, 460).
THEOREM CountsAreExact == Spec => []CountsExact
  <1>1. StoreInv => CountsExact
    BY DEF StoreInv, CountsExact, Counts, Counted, Children, MountsOn, MemoryType
  <1> QED BY <1>1, StoreInvariant, PTL

\* A layer is in the map as long as a layer on top, a mount, a handle or a call needs it.
NeededIsInMap ==
  /\ \A c \in layerMap : parent[c] \in layerMap \cup {<<>>}
  /\ \A m \in Mounts : mounts[m].in => mounts[m].parent \in layerMap \cup {<<>>}
  /\ \A c \in Chains : refs[c] # {} \/ Retainers(c) # {} => c \in layerMap

LEMMA NeededFacts == StoreInv => NeededIsInMap
  <1> SUFFICES ASSUME StoreInv PROVE NeededIsInMap
    OBVIOUS
  <1> USE DEF StoreInv
  <1>1. ASSUME NEW c \in layerMap PROVE parent[c] \in layerMap \cup {<<>>}
    <2>1. parent[c] = <<>> \/ parent[c] \in Chains
      BY <1>1 DEF MemoryType, Bases
    <2>2. c \in Children(parent[c])
      BY DEF Children
    <2> QED BY <2>1, <2>2, CountFacts
  <1>2. ASSUME NEW m \in Mounts, mounts[m].in PROVE mounts[m].parent \in layerMap \cup {<<>>}
    <2>1. mounts[m].parent = <<>> \/ mounts[m].parent \in Chains
      BY DEF MountsType, Bases
    <2>2. m \in MountsOn(mounts[m].parent)
      BY <1>2 DEF MountsOn
    <2> QED BY <2>1, <2>2, CountFacts
  <1>3. ASSUME NEW c \in Chains, refs[c] # {} \/ Retainers(c) # {} PROVE c \in layerMap
    BY <1>3, CountFacts
  <1> QED BY <1>1, <1>2, <1>3 DEF NeededIsInMap

LEMMA NeededNext == StoreInv' => NeededIsInMap'
  BY NeededFacts, PTL

\* A layer that a layer, a mount, a handle or a call needs is in the map: it was not deleted
\* under them, and it was loaded with them.
THEOREM NeededStaysInMap == Spec => []NeededIsInMap
  BY NeededFacts, StoreInvariant, PTL
-------------------------------------------------------------------------------
(* What the next start loads                                                   *)

\* Steps that touch neither the metadata nor what it says.
LEMMA SameDisk ==
  ASSUME DiskMatches, UNCHANGED <<layerMap, cache, parent, disk>>,
         \A m \in Mounts : /\ mounts'[m].in = mounts[m].in /\ mounts'[m].parent = mounts[m].parent
                           /\ mounts'[m].rw = mounts[m].rw /\ mounts'[m].init = mounts[m].init
  PROVE  DiskMatches'
  BY DEF DiskMatches, Written, MountWritten, disk

\* Handing out a writable layer, and taking it back, change who holds it.
LEMMA SameMounts ==
  ASSUME MountsType, NEW n \in Mounts, NEW S, mounts' = [mounts EXCEPT ![n].refs = S]
  PROVE  \A m \in Mounts : /\ mounts'[m].in = mounts[m].in /\ mounts'[m].parent = mounts[m].parent
                           /\ mounts'[m].rw = mounts[m].rw /\ mounts'[m].init = mounts[m].init
  BY DEF MountsType

\* A layer enters the map after its metadata directory was renamed into place.
LEMMA CommitWrites ==
  ASSUME StoreInv, DiskMatches, NEW p \in Procs, RegisterCommit(p)
  PROVE  DiskMatches'
  <1>1. PICK c \in Chains : c = op[p].l
    BY DEF StoreInv, CallsOK, CallOK, RegisterCommit, At
  <1>2. mounts' = mounts /\ mountMeta' = mountMeta
    BY DEF RegisterCommit
  <1>3. CASE UNCHANGED <<layerMap, cache, parent, meta>>
    BY <1>2, <1>3, SameDisk DEF disk
  <1>4. CASE /\ c \notin layerMap
             /\ meta' = [meta EXCEPT ![c] = [state |-> "full", cache |-> op[p].new, parent |-> op[p].cur]]
             /\ layerMap' = layerMap \cup {c}
             /\ cache' = [cache EXCEPT ![c] = op[p].new]
             /\ parent' = [parent EXCEPT ![c] = op[p].cur]
    <2>1. /\ cache \in [Chains -> Ids] /\ parent \in [Chains -> Bases] /\ meta \in [Chains -> Metas]
          /\ layerMap \subseteq Chains
      BY DEF StoreInv, MemoryType, DiskType
    <2>2. PICK r : /\ r = [state |-> "full", cache |-> op[p].new, parent |-> op[p].cur]
                   /\ meta' = [meta EXCEPT ![c] = r]
      BY <1>4
    <2>3. Written(c)'
      <3>1. meta'[c] = r /\ cache'[c] = op[p].new /\ parent'[c] = op[p].cur
        BY <1>1, <1>4, <2>1, <2>2
      <3> QED BY <2>2, <3>1 DEF Written
    <2>4. ASSUME NEW d \in layerMap PROVE Written(d)'
      <3>1. d # c
        BY <1>4, <2>4
      <3>2. meta'[d] = meta[d] /\ cache'[d] = cache[d] /\ parent'[d] = parent[d]
        BY <1>4, <2>1, <2>2, <2>4, <3>1
      <3> QED BY <2>4, <3>1, <3>2 DEF DiskMatches, Written
    <2>5. \A m \in Mounts : mounts'[m].in => MountWritten(m)'
      BY <1>2 DEF DiskMatches, MountWritten
    <2>6. layerMap' = layerMap \cup {c}
      BY <1>4
    <2> QED BY <2>3, <2>4, <2>5, <2>6 DEF DiskMatches
  <1> QED BY <1>1, <1>3, <1>4 DEF RegisterCommit

\* A layer leaves the map with its metadata.
LEMMA LayerGoes ==
  ASSUME StoreInv, NEW c \in Chains,
         meta' = [meta EXCEPT ![c] = NoMeta], layerMap' = layerMap \ {c},
         cache' = [cache EXCEPT ![c] = 0], parent' = [parent EXCEPT ![c] = <<>>],
         UNCHANGED <<mounts, mountMeta>>
  PROVE  (DiskMatches => DiskMatches') /\ (NothingElse => NothingElse')
  <1>1. /\ cache \in [Chains -> Ids] /\ parent \in [Chains -> Bases] /\ meta \in [Chains -> Metas]
        /\ layerMap \subseteq Chains
    BY DEF StoreInv, MemoryType, DiskType
  <1>2. ASSUME DiskMatches PROVE DiskMatches'
    <2>1. ASSUME NEW d \in layerMap' PROVE Written(d)'
      <3>1. d \in layerMap /\ meta'[d] = meta[d] /\ cache'[d] = cache[d] /\ parent'[d] = parent[d]
        BY <1>1, <2>1
      <3> QED BY <1>2, <3>1 DEF DiskMatches, Written
    <2>2. \A m \in Mounts : mounts'[m].in => MountWritten(m)'
      BY <1>2 DEF DiskMatches, MountWritten
    <2> QED BY <2>1, <2>2 DEF DiskMatches
  <1>3. ASSUME NothingElse PROVE NothingElse'
    <2>1. ASSUME NEW d \in Chains, d \notin layerMap' PROVE meta'[d].state # "full"
      <3>1. CASE d = c
        BY <1>1, <3>1 DEF NoMeta
      <3>2. CASE d # c
        <4>1. d \notin layerMap /\ meta'[d] = meta[d]
          BY <1>1, <2>1, <3>2
        <4> QED BY <1>3, <4>1 DEF NothingElse
      <3> QED BY <3>1, <3>2
    <2> QED BY <2>1 DEF NothingElse
  <1> QED BY <1>2, <1>3

LEMMA RemovalWrites ==
  ASSUME StoreInv, DiskMatches, "rmmeta" \notin Faults, NEW p \in Procs, RemoveMeta(p)
  PROVE  DiskMatches'
  <1>1. PICK c \in Chains : c = op[p].cur
    BY DEF StoreInv, CallsOK, CallOK, RemoveMeta, At
  <1>2. /\ meta' = [meta EXCEPT ![c] = NoMeta] /\ layerMap' = layerMap \ {c}
        /\ cache' = [cache EXCEPT ![c] = 0] /\ parent' = [parent EXCEPT ![c] = <<>>]
        /\ UNCHANGED <<mounts, mountMeta>>
    BY <1>1 DEF RemoveMeta
  <1> QED BY <1>2, LayerGoes

\* A mount enters the map after its files were written; a failure touches only the files of
\* a mount that is not there.
LEMMA SaveWrites ==
  ASSUME StoreInv, DiskMatches, NEW p \in Procs, SaveMount(p)
  PROVE  DiskMatches'
  <1>1. PICK m \in Mounts : m = Mount(p) /\ ~mounts[m].in
    BY MountFacts DEF StoreInv, CallsOK, SaveMount, At
  <1>2. layerMap' = layerMap /\ cache' = cache /\ parent' = parent /\ meta' = meta
    BY DEF SaveMount, memory
  <1>3. mounts \in [Mounts -> [in : BOOLEAN, parent : Bases, rw : Ids, init : Ids, refs : SUBSET Procs]]
        /\ mountMeta \in [Mounts -> Files]
    BY DEF StoreInv, MountsType, DiskType
  <1>4. \A c \in layerMap' : Written(c)'
    BY <1>2 DEF DiskMatches, Written
  <1>5. PICK f : mountMeta' = [mountMeta EXCEPT ![m] = f]
    BY <1>1 DEF SaveMount
  <1>6. ASSUME NEW n \in Mounts, n # m, mounts'[n] = mounts[n], mounts'[n].in PROVE MountWritten(n)'
    <2>1. mountMeta'[n] = mountMeta[n]
      BY <1>3, <1>5, <1>6
    <2> QED BY <1>6, <2>1 DEF DiskMatches, MountWritten
  <1>7. CASE mounts' = mounts
    BY <1>1, <1>4, <1>6, <1>7 DEF DiskMatches
  <1>8. CASE /\ mountMeta' = [mountMeta EXCEPT ![m] = Saved(p, 3)]
             /\ mounts' = [mounts EXCEPT ![m] = [in |-> TRUE, parent |-> op[p].cur, rw |-> op[p].new,
                                                 init |-> op[p].init, refs |-> {p}]]
    <2>1. Saved(p, 3) = [rw |-> op[p].new, init |-> op[p].init, parent |-> op[p].cur]
      BY DEF Saved
    <2>2. PICK r : /\ r = [in |-> TRUE, parent |-> op[p].cur, rw |-> op[p].new,
                           init |-> op[p].init, refs |-> {p}]
                   /\ mounts' = [mounts EXCEPT ![m] = r]
      BY <1>8
    <2>3. /\ r.parent = op[p].cur /\ r.rw = op[p].new /\ r.init = op[p].init
          /\ mounts'[m] = r /\ mountMeta'[m] = Saved(p, 3)
          /\ \A n \in Mounts : n # m => mounts'[n] = mounts[n]
      BY <1>1, <1>3, <1>8, <2>2
    <2>4. MountWritten(m)'
      BY <2>1, <2>3 DEF MountWritten
    <2> QED BY <1>4, <1>6, <2>3, <2>4 DEF DiskMatches
  <1> QED BY <1>1, <1>7, <1>8 DEF SaveMount

\* A mount leaves the map with its files.
LEMMA MountGoes ==
  ASSUME StoreInv, DiskMatches, NEW m,
         mountMeta' = [mountMeta EXCEPT ![m] = NoFiles], mounts' = [mounts EXCEPT ![m] = NoMount],
         UNCHANGED <<layerMap, cache, parent, meta>>
  PROVE  DiskMatches'
  <1>1. mounts \in [Mounts -> [in : BOOLEAN, parent : Bases, rw : Ids, init : Ids, refs : SUBSET Procs]]
        /\ mountMeta \in [Mounts -> Files]
    BY DEF StoreInv, MountsType, DiskType
  <1>2. \A c \in layerMap' : Written(c)'
    BY DEF DiskMatches, Written
  <1>3. ASSUME NEW n \in Mounts, mounts'[n].in PROVE MountWritten(n)'
    <2>1. n # m
      BY <1>1, <1>3 DEF NoMount
    <2>2. mounts'[n] = mounts[n] /\ mountMeta'[n] = mountMeta[n]
      BY <1>1, <1>3, <2>1
    <2> QED BY <1>3, <2>2 DEF DiskMatches, MountWritten
  <1> QED BY <1>2, <1>3 DEF DiskMatches

LEMMA MountRemovalWrites ==
  ASSUME StoreInv, DiskMatches, "rmmeta" \notin Faults, NEW p \in Procs, RemoveMount(p)
  PROVE  DiskMatches'
  BY MountGoes DEF RemoveMount, memory

\* What is loaded can be read.
LEMMA LoadedIsFull ==
  ASSUME NEW mt, NEW c \in Chains, Loadable(mt, c)
  PROVE  mt[c].state = "full"
  <1>1. c \in Seq(Diffs) /\ Len(c) \in Nat \ {0}
    BY ChainFacts
  <1>2. SubSeq(c, 1, Len(c)) = c
    BY <1>1, SubSeqFull
  <1>3. PICK k \in 1..Len(c) : \A n \in k..Len(c) : mt[SubSeq(c, 1, n)].state = "full"
    BY DEF Loadable
  <1>4. Len(c) \in k..Len(c)
    BY <1>1, <1>3
  <1> QED BY <1>2, <1>3, <1>4

\* What is loaded was read from the disk.
LEMMA CrashWrites ==
  ASSUME StoreInv, Crash
  PROVE  DiskMatches'
  <1>1. DiskType'
    BY DyingDisk
  <1>2. PICK mt \in [Chains -> Metas], mm \in [Mounts -> Files] : mt = meta' /\ mm = mountMeta'
    BY <1>1 DEF DiskType
  <1>3. /\ layerMap' = {c \in Chains : Loadable(mt, c)}
        /\ cache' = [c \in Chains |-> IF c \in layerMap' THEN mt[c].cache ELSE 0]
        /\ parent' = [c \in Chains |-> IF c \in layerMap' THEN mt[c].parent ELSE <<>>]
        /\ mounts' = [m \in Mounts |->
             IF MountLoadable(mt, mm[m])
             THEN [in |-> TRUE, parent |-> mm[m].parent, rw |-> mm[m].rw, init |-> mm[m].init, refs |-> {}]
             ELSE NoMount]
    BY <1>2 DEF Crash
  <1>4. ASSUME NEW c \in layerMap' PROVE Written(c)'
    <2>1. c \in Chains /\ Loadable(mt, c)
      BY <1>3, <1>4
    <2>2. mt[c].state = "full"
      BY <2>1, LoadedIsFull
    <2>3. cache'[c] = mt[c].cache /\ parent'[c] = mt[c].parent
      BY <1>3, <1>4, <2>1
    <2>4. mt[c] = [state |-> "full", cache |-> mt[c].cache, parent |-> mt[c].parent]
      <3>1. mt[c] \in Metas
        BY <1>2, <2>1
      <3> QED BY <2>2, <3>1 DEF Metas
    <2> QED BY <1>2, <2>3, <2>4 DEF Written
  <1>5. ASSUME NEW m \in Mounts, mounts'[m].in PROVE MountWritten(m)'
    <2>1. mounts'[m] = [in |-> TRUE, parent |-> mm[m].parent, rw |-> mm[m].rw, init |-> mm[m].init, refs |-> {}]
      BY <1>3, <1>5 DEF NoMount
    <2>2. mm[m] \in Files
      BY <1>2
    <2>3. mm[m] = [rw |-> mm[m].rw, init |-> mm[m].init, parent |-> mm[m].parent]
      BY <2>2 DEF Files
    <2> QED BY <1>2, <2>1, <2>3 DEF MountWritten
  <1> QED BY <1>4, <1>5 DEF DiskMatches

LEMMA StepWrites ==
  ASSUME StoreInv, DiskMatches, "rmmeta" \notin Faults, [Next]_vars
  PROVE  DiskMatches'
  <1>1. ASSUME UNCHANGED <<layerMap, cache, parent, mounts, disk>> PROVE DiskMatches'
    BY <1>1, SameDisk
  <1>2. ASSUME UNCHANGED <<layerMap, cache, parent, disk>>,
               NEW n \in Mounts, NEW S, mounts' = [mounts EXCEPT ![n].refs = S]
        PROVE  DiskMatches'
    BY <1>2, SameDisk, SameMounts DEF StoreInv
  <1>3. ASSUME NEW p \in Procs, Enter(p) PROVE DiskMatches'
    <2>1. ASSUME NEW c \in Chains, Get(p, c) \/ Release(p, c) \/ Register(p, c) PROVE DiskMatches'
      BY <1>1, <2>1 DEF Get, Release, Register
    <2>2. ASSUME NEW m \in Mounts, GetRWLayer(p, m) \/ ReleaseRWLayer(p, m) PROVE DiskMatches'
      BY <1>2, <2>2 DEF GetRWLayer, ReleaseRWLayer, memory
    <2>3. ASSUME NEW m \in Mounts, NEW c \in Chains, CreateRWLayer(p, m, c) PROVE DiskMatches'
      BY <1>1, <2>3 DEF CreateRWLayer
    <2> QED BY <1>3, <2>1, <2>2, <2>3 DEF Enter
  <1>4. ASSUME NEW p \in Procs, Step(p) PROVE DiskMatches'
    <2>1. CASE Dec(p) \/ RemoveData(p) \/ RegisterCreate(p) \/ RegisterApply(p) \/ RegisterCleanup(p)
      BY <1>1, <2>1 DEF Dec, RemoveData, RegisterCreate, RegisterApply, RegisterCleanup, memory
    <2>2. CASE InitMount(p) \/ CreateReadWrite(p)
      BY <1>1, <2>2 DEF InitMount, CreateReadWrite, memory
    <2>3. CASE RemoveRW(p) \/ RemoveInit(p)
      <3>1. Mount(p) \in Mounts
        BY <2>3, MountFacts DEF StoreInv, CallsOK, RemoveRW, RemoveInit, At
      <3>2. UNCHANGED <<layerMap, cache, parent, disk>>
        BY <2>3 DEF RemoveRW, RemoveInit, memory
      <3>3. mounts' = mounts \/ Retake(p)
        BY <2>3 DEF RemoveRW, RemoveInit
      <3> QED BY <1>1, <1>2, <3>1, <3>2, <3>3 DEF Retake
    <2> QED BY <1>4, <2>1, <2>2, <2>3, CommitWrites, RemovalWrites, SaveWrites, MountRemovalWrites
            DEF Step
  <1>5. CASE UNCHANGED vars
    BY <1>1, <1>5 DEF vars, disk
  <1> QED BY <1>3, <1>4, <1>5, CrashWrites DEF Next

\* If removing metadata does not fail halfway, then a daemon that dies at any moment loads
\* every layer and every mount of the map again, with the same data: after any errors of
\* the driver, of writing, and earlier deaths (filestore.go:93, layer_store.go:131, 252).
THEOREM RestartLoadsAll ==
  ASSUME "rmmeta" \notin Faults
  PROVE  Spec => []SurvivesRestart
  <1>1. Init => DiskMatches
    BY DEF Init, DiskMatches, NoMount
  <1>2. StoreInv /\ DiskMatches /\ [Next]_vars => DiskMatches'
    BY StepWrites
  <1>3. DiskMatches => SurvivesRestart
    BY DEF DiskMatches, Written, MountWritten, SurvivesRestart
  <1> QED BY <1>1, <1>2, <1>3, StoreInvariant, PTL DEF Spec
-------------------------------------------------------------------------------
(* The driver's data                                                           *)

\* The driver's layers that a layer of the store has, a mount, and a call under way.
LayerData(c) == IF c \in layerMap THEN {cache[c]} ELSE {}
MountData(m) == IF mounts[m].in THEN {mounts[m].rw, mounts[m].init} ELSE {}
CallData(p) ==
  {d \in {op[p].new} : op[p].pc \in {"apply", "commit", "cleanup", "save"}}
    \cup {d \in {op[p].init} : op[p].pc \in {"rw", "save"}}

LayerOwner(c) == <<"layer", c>>
MountOwner(m) == <<"mount", m>>
CallOwner(p) == <<"call", p>>
Owners ==
  {LayerOwner(c) : c \in Chains} \cup {MountOwner(m) : m \in Mounts} \cup {CallOwner(p) : p \in Procs}

Has(o) ==
  IF o[1] = "layer" THEN LayerData(o[2])
  ELSE IF o[1] = "mount" THEN MountData(o[2]) ELSE CallData(o[2])

\* What call p deletes, when some of its data is gone already.
Removes(p, o) ==
  \/ op[p].pc = "rmmeta" /\ o = LayerOwner(op[p].cur)
  \/ op[p].pc \in {"rminit", "rmmount"} /\ o = MountOwner(Mount(p))
Vanishing(o) == \E p \in Procs : Removes(p, o)

\* No two have the same layer of the driver, and what somebody has is there, unless it
\* is being deleted; nobody holds a mount that is being deleted.
OwnData == \A o \in Owners : Has(o) \subseteq Data
OneOwner == \A o1, o2 \in Owners : \A d : d \in Has(o1) /\ d \in Has(o2) => o1 = o2
Present == \A o \in Owners : Has(o) \subseteq driver \/ Vanishing(o)
NobodyHolds ==
  \A p \in Procs : op[p].pc \in {"rmrw", "rminit", "rmmount"} => mounts[Mount(p)].refs = {}

OwnersInv == OwnData /\ OneOwner /\ Present
HeldInv == OwnersInv /\ NobodyHolds

\* What the parts of Owners have.
LEMMA HasFacts ==
  /\ \A c \in Chains : /\ LayerOwner(c) \in Owners
                       /\ Has(LayerOwner(c)) = LayerData(c) /\ Has(LayerOwner(c))' = LayerData(c)'
  /\ \A m \in Mounts : /\ MountOwner(m) \in Owners
                       /\ Has(MountOwner(m)) = MountData(m) /\ Has(MountOwner(m))' = MountData(m)'
  /\ \A p \in Procs : /\ CallOwner(p) \in Owners
                      /\ Has(CallOwner(p)) = CallData(p) /\ Has(CallOwner(p))' = CallData(p)'
  /\ \A o \in Owners : \/ \E c \in Chains : o = LayerOwner(c)
                       \/ \E m \in Mounts : o = MountOwner(m)
                       \/ \E p \in Procs : o = CallOwner(p)
  <1> HIDE DEF LayerData, MountData, CallData
  <1>1. \A o : Has(o) = IF o[1] = "layer" THEN LayerData(o[2])
                        ELSE IF o[1] = "mount" THEN MountData(o[2]) ELSE CallData(o[2])
    BY DEF Has
  <1>2. \A o : Has(o)' = IF o[1] = "layer" THEN LayerData(o[2])'
                         ELSE IF o[1] = "mount" THEN MountData(o[2])' ELSE CallData(o[2])'
    BY DEF Has
  <1>3. \A x : /\ LayerOwner(x)[1] = "layer" /\ LayerOwner(x)[2] = x
               /\ MountOwner(x)[1] = "mount" /\ MountOwner(x)[2] = x
               /\ CallOwner(x)[1] = "call" /\ CallOwner(x)[2] = x
    BY DEF LayerOwner, MountOwner, CallOwner
  <1> HIDE DEF LayerOwner, MountOwner, CallOwner, Has
  <1> QED BY <1>1, <1>2, <1>3 DEF Owners

\* They are told apart.
LEMMA OwnersDiffer ==
  \A x, y : /\ LayerOwner(x) = LayerOwner(y) => x = y
            /\ MountOwner(x) = MountOwner(y) => x = y
            /\ CallOwner(x) = CallOwner(y) => x = y
            /\ LayerOwner(x) # MountOwner(y) /\ LayerOwner(x) # CallOwner(y)
            /\ MountOwner(x) # CallOwner(y)
  BY DEF LayerOwner, MountOwner, CallOwner

LEMMA OwnedIsInUse ==
  ASSUME StoreInv, NEW o \in Owners, NEW d \in Has(o)
  PROVE  InUse(d)
  <1>1. CASE \E c \in Chains : o = LayerOwner(c)
    BY <1>1, HasFacts DEF LayerData, InUse
  <1>2. CASE \E m \in Mounts : o = MountOwner(m)
    BY <1>2, HasFacts DEF MountData, InUse
  <1>3. CASE \E p \in Procs : o = CallOwner(p)
    BY <1>3, HasFacts DEF CallData, InUse
  <1> QED BY <1>1, <1>2, <1>3, HasFacts

\* Steps that make no data and delete none.
LEMMA NothingTaken ==
  ASSUME OwnersInv, driver \subseteq driver',
         \A o \in Owners : /\ Has(o)' \subseteq Has(o)
                           /\ Vanishing(o) => Vanishing(o)' \/ Has(o)' = {}
  PROVE  OwnersInv'
  BY DEF OwnersInv, OwnData, OneOwner, Present

\* The driver makes a layer for o.
LEMMA Made ==
  ASSUME OwnersInv, NEW o \in Owners, NEW d \in Data, driver' = driver \cup {d},
         \A e \in Owners : d \notin Has(e),
         Has(o)' \subseteq Has(o) \cup {d}, ~Vanishing(o),
         \A e \in Owners : e # o => /\ Has(e)' \subseteq Has(e)
                                    /\ Vanishing(e) => Vanishing(e)' \/ Has(e)' = {}
  PROVE  OwnersInv'
  <1>1. OwnData'
    BY DEF OwnersInv, OwnData
  <1>2. OneOwner'
    BY DEF OwnersInv, OneOwner
  <1>3. Present'
    BY DEF OwnersInv, Present
  <1> QED BY <1>1, <1>2, <1>3 DEF OwnersInv

\* f gives its data to t.
LEMMA Moved ==
  ASSUME OwnersInv, NEW f \in Owners, NEW t \in Owners, f # t, driver' = driver,
         Has(t)' \subseteq Has(f), Has(f)' = {}, ~Vanishing(f),
         \A e \in Owners : e # f /\ e # t => /\ Has(e)' \subseteq Has(e)
                                             /\ Vanishing(e) => Vanishing(e)' \/ Has(e)' = {}
  PROVE  OwnersInv'
  <1>1. OwnData'
    BY DEF OwnersInv, OwnData
  <1>2. OneOwner'
    BY DEF OwnersInv, OneOwner
  <1>3. Present'
    BY DEF OwnersInv, Present
  <1> QED BY <1>1, <1>2, <1>3 DEF OwnersInv

\* The driver deletes a layer of o, which is given up, or will be.
LEMMA Deleted ==
  ASSUME OwnersInv, NEW o \in Owners, NEW d \in Has(o), driver' = driver \ {d},
         Vanishing(o)' \/ Has(o)' = {}, Has(o)' \subseteq Has(o),
         \A e \in Owners : e # o => /\ Has(e)' \subseteq Has(e)
                                    /\ Vanishing(e) => Vanishing(e)' \/ Has(e)' = {}
  PROVE  OwnersInv'
  <1>1. OwnData'
    BY DEF OwnersInv, OwnData
  <1>2. OneOwner'
    BY DEF OwnersInv, OneOwner
  <1>3. Present'
    BY DEF OwnersInv, OneOwner, Present
  <1> QED BY <1>1, <1>2, <1>3 DEF OwnersInv

\* What others have, and what they delete, when p makes a step.
LEMMA OthersHave ==
  ASSUME NEW p \in Procs, \A q \in Procs : q # p => op'[q] = op[q]
  PROVE  /\ \A q \in Procs : q # p => Has(CallOwner(q))' = Has(CallOwner(q))
         /\ \A o : Vanishing(o) => Vanishing(o)' \/ Removes(p, o)
  <1>1. ASSUME NEW q \in Procs, q # p PROVE Has(CallOwner(q))' = Has(CallOwner(q))
    <2>1. op'[q] = op[q]
      BY <1>1
    <2>2. CallData(q)' = CallData(q)
      BY <2>1 DEF CallData
    <2> QED BY <2>2, HasFacts
  <1>2. ASSUME NEW o, NEW q \in Procs, q # p, Removes(q, o) PROVE Removes(q, o)'
    <2>1. op'[q] = op[q]
      BY <1>2
    <2>2. Mount(q)' = Mount(q)
      BY <2>1 DEF Mount
    <2> QED BY <1>2, <2>1, <2>2 DEF Removes, LayerOwner, MountOwner
  <1> QED BY <1>1, <1>2 DEF Vanishing

LEMMA LayersHave ==
  ASSUME layerMap' = layerMap, cache' = cache
  PROVE  \A c \in Chains : Has(LayerOwner(c))' = Has(LayerOwner(c))
  <1>1. \A c \in Chains : LayerData(c)' = LayerData(c)
    BY DEF LayerData
  <1> QED BY <1>1, HasFacts

LEMMA MountsHave ==
  ASSUME \A m \in Mounts : mounts'[m].in = mounts[m].in /\ mounts'[m].rw = mounts[m].rw
                                                         /\ mounts'[m].init = mounts[m].init
  PROVE  \A m \in Mounts : Has(MountOwner(m))' = Has(MountOwner(m))
  <1>1. \A m \in Mounts : MountData(m)' = MountData(m)
    BY DEF MountData
  <1> QED BY <1>1, HasFacts

\* All others keep what they have when p makes a step that changes no layer and no mount.
LEMMA OnlyCall ==
  ASSUME NEW p \in Procs, \A q \in Procs : q # p => op'[q] = op[q],
         layerMap' = layerMap, cache' = cache,
         \A m \in Mounts : mounts'[m].in = mounts[m].in /\ mounts'[m].rw = mounts[m].rw
                                                         /\ mounts'[m].init = mounts[m].init
  PROVE  /\ \A o \in Owners : /\ o # CallOwner(p) => Has(o)' = Has(o)
                              /\ Vanishing(o) => Vanishing(o)' \/ Removes(p, o)
         /\ CallOwner(p) \in Owners /\ Has(CallOwner(p)) = CallData(p) /\ Has(CallOwner(p))' = CallData(p)'
         /\ ~Vanishing(CallOwner(p))
  <1>1. \A o \in Owners : o # CallOwner(p) => Has(o)' = Has(o)
    BY OthersHave, LayersHave, MountsHave, HasFacts
  <1>2. ~Vanishing(CallOwner(p))
    BY OwnersDiffer DEF Vanishing, Removes
  <1> QED BY <1>1, <1>2, OthersHave, HasFacts

\* Who deletes a mount goes on to delete the same.
LEMMA HoldersSame ==
  ASSUME NobodyHolds, NEW p \in Procs, \A q \in Procs : q # p => op'[q] = op[q], mounts' = mounts,
         op'[p].pc \in {"rmrw", "rminit", "rmmount"} =>
           op[p].pc \in {"rmrw", "rminit", "rmmount"} /\ op'[p].m = op[p].m
  PROVE  NobodyHolds'
  <1>1. ASSUME NEW q \in Procs, op'[q].pc \in {"rmrw", "rminit", "rmmount"}
        PROVE  mounts[Mount(q)'].refs = {}
    <2>1. op[q].pc \in {"rmrw", "rminit", "rmmount"} /\ op'[q].m = op[q].m
      BY <1>1
    <2>2. Mount(q)' = Mount(q)
      BY <2>1 DEF Mount
    <2> QED BY <2>1, <2>2 DEF NobodyHolds
  <1> QED BY <1>1 DEF NobodyHolds

\* A call that deletes nothing goes on with no more data than it has.
LEMMA CallGoesOn ==
  ASSUME HeldInv, NEW p \in Procs, \A q \in Procs : q # p => op'[q] = op[q],
         UNCHANGED <<layerMap, cache, mounts>>, driver \subseteq driver',
         CallData(p)' \subseteq CallData(p),
         op[p].pc \notin {"rmrw", "rmmeta", "rminit", "rmmount"},
         op'[p].pc \notin {"rmrw", "rminit", "rmmount"}
  PROVE  HeldInv'
  <1>1. /\ \A o \in Owners : o # CallOwner(p) => Has(o)' = Has(o)
        /\ \A o \in Owners : Vanishing(o) => Vanishing(o)' \/ Removes(p, o)
        /\ Has(CallOwner(p)) = CallData(p) /\ Has(CallOwner(p))' = CallData(p)'
    BY OnlyCall
  <1>2. \A o : ~Removes(p, o)
    BY DEF Removes
  <1>3. OwnersInv'
    BY <1>1, <1>2, NothingTaken DEF HeldInv
  <1>4. NobodyHolds'
    BY HoldersSame DEF HeldInv
  <1> QED BY <1>3, <1>4 DEF HeldInv

\* What calls have that are not between making data and entering or deleting it.
LEMMA NoCallData ==
  ASSUME NEW p \in Procs
  PROVE  /\ op[p].pc \notin {"apply", "commit", "cleanup", "rw", "save"} => CallData(p) = {}
         /\ op'[p].pc \notin {"apply", "commit", "cleanup", "rw", "save"} => CallData(p)' = {}
  BY DEF CallData

LEMMA FailGivesUp ==
  ASSUME CallsType, NEW p \in Procs, Fail(p)
  PROVE  /\ op'[p].pc \in {"idle", "dec"}
         /\ \A q \in Procs : q # p => op'[q] = op[q]
  <1>1. CASE Return(p)
    BY <1>1, ReturnFacts, IdleFacts, NewCall
  <1>2. CASE Goto(p, "dec")
    <2>1. PICK o \in Calls : op' = [op EXCEPT ![p] = o] /\ o.pc = "dec"
      BY <1>2, GotoFacts
    <2> QED BY <2>1, NewCall
  <1> QED BY <1>1, <1>2 DEF Fail

\* A call that has no data in the driver, before and after.
LEMMA CallHasNone ==
  ASSUME HeldInv, NEW p \in Procs, \A q \in Procs : q # p => op'[q] = op[q],
         UNCHANGED <<layerMap, cache, mounts>>, driver \subseteq driver',
         op[p].pc \notin {"rmrw", "rmmeta", "rminit", "rmmount"},
         op'[p].pc \in {"idle", "dec", "rmdata", "create", "init"}
  PROVE  HeldInv'
  <1>1. CallData(p)' = {}
    BY NoCallData
  <1> QED BY <1>1, CallGoesOn

\* Nobody deletes a mount as long as nobody has mountL.
LEMMA NoDeletion ==
  ASSUME CallsOK, mountL = NoProc, NEW p \in Procs
  PROVE  op[p].pc \notin {"init", "rw", "save", "rmrw", "rminit", "rmmount"}
  BY ProcsAssumption DEF CallsOK, CallOK

\* A goroutine enters a call that changes no layer, no mount and no data.
LEMMA EnterFacts ==
  ASSUME StoreInv, NEW p \in Procs, NEW c \in Chains,
         Get(p, c) \/ Release(p, c) \/ Register(p, c) \/ \E m \in Mounts : CreateRWLayer(p, m, c)
  PROVE  /\ op[p].pc = "idle" /\ op'[p].pc \in {"idle", "dec", "create", "init"}
         /\ \A q \in Procs : q # p => op'[q] = op[q]
         /\ UNCHANGED <<layerMap, cache, parent, mounts, driver, base>>
  <1> USE DEF StoreInv
  <1>1. op[p].pc = "idle" /\ UNCHANGED <<layerMap, cache, parent, mounts, driver, base>>
    BY DEF Get, Release, Register, CreateRWLayer, At, data
  <1>2. CASE Get(p, c)
    BY <1>1, <1>2 DEF Get
  <1>3. CASE Release(p, c)
    <2>1. c \in Bases /\ op' = [op EXCEPT ![p].pc = "dec", ![p].cur = c]
      BY <1>3 DEF Release, Bases
    <2>2. PICK o \in Calls : op' = [op EXCEPT ![p] = o] /\ o.pc = "dec"
      BY <2>1, GotoRelease
    <2>3. op'[p] = o /\ \A q \in Procs : q # p => op'[q] = op[q]
      BY <2>2, NewCall
    <2> QED BY <1>1, <2>2, <2>3
  <1>4. ASSUME NEW o, op' = [op EXCEPT ![p] = o], o.pc \in {"dec", "create", "init"}
        PROVE  op'[p].pc \in {"dec", "create", "init"} /\ \A q \in Procs : q # p => op'[q] = op[q]
    BY <1>4 DEF CallsType
  <1>5. CASE Register(p, c)
    <2> DEFINE o == [Idle EXCEPT !.l = c, !.cur = Front(c),
                                 !.pc = IF Len(Front(c)) >= MaxDepth THEN "dec" ELSE "create"]
    <2>1. o.pc \in {"dec", "create"}
      BY DEF Idle
    <2>2. op' = [op EXCEPT ![p] = o]
      BY <1>5 DEF Register
    <2> HIDE DEF o
    <2> QED BY <1>1, <1>4, <2>1, <2>2
  <1>6. ASSUME NEW m \in Mounts, CreateRWLayer(p, m, c)
        PROVE  op'[p].pc = "init" /\ \A q \in Procs : q # p => op'[q] = op[q]
    <2> DEFINE o == [Idle EXCEPT !.m = {m}, !.cur = c, !.pc = "init"]
    <2>1. o.pc = "init"
      BY DEF Idle
    <2>2. op' = [op EXCEPT ![p] = o]
      BY <1>6 DEF CreateRWLayer
    <2> HIDE DEF o
    <2> QED BY <2>1, <2>2 DEF CallsType
  <1> QED BY <1>1, <1>2, <1>3, <1>5, <1>6

\* ... or one that hands out a mount, or takes it back.
LEMMA EnterMountFacts ==
  ASSUME StoreInv, NEW p \in Procs, NEW m \in Mounts, GetRWLayer(p, m) \/ ReleaseRWLayer(p, m)
  PROVE  /\ op[p].pc = "idle" /\ mountL = NoProc
         /\ op'[p].pc = "idle" \/ (op'[p].pc = "rmrw" /\ op'[p].m = {m} /\ mounts'[m].refs = {})
         /\ \A q \in Procs : q # p => op'[q] = op[q]
         /\ UNCHANGED <<layerMap, cache, parent, driver, base>>
         /\ \A n \in Mounts : /\ mounts'[n].in = mounts[n].in /\ mounts'[n].parent = mounts[n].parent
                               /\ mounts'[n].rw = mounts[n].rw /\ mounts'[n].init = mounts[n].init
  <1> USE DEF StoreInv
  <1>1. /\ op[p].pc = "idle" /\ mountL = NoProc /\ UNCHANGED <<layerMap, cache, parent, driver, base>>
        /\ \E S : mounts' = [mounts EXCEPT ![m].refs = S]
    BY DEF GetRWLayer, ReleaseRWLayer, At, memory, data
  <1>2. \A n \in Mounts : /\ mounts'[n].in = mounts[n].in /\ mounts'[n].parent = mounts[n].parent
                          /\ mounts'[n].rw = mounts[n].rw /\ mounts'[n].init = mounts[n].init
    BY <1>1, SameMounts
  <1>3. CASE op' = op
    BY <1>1, <1>2, <1>3
  <1>4. CASE /\ mounts' = [mounts EXCEPT ![m].refs = @ \ {p}] /\ mounts[m].refs = {p}
             /\ op' = [op EXCEPT ![p].pc = "rmrw", ![p].m = {m}]
    <2> DEFINE o == [op[p] EXCEPT !.pc = "rmrw", !.m = {m}]
    <2>1. op[p] \in Calls /\ op \in [Procs -> Calls]
      BY DEF CallsType
    <2>2. o \in Calls /\ o.pc = "rmrw" /\ o.m = {m}
      BY <2>1 DEF Calls
    <2>3. op' = [op EXCEPT ![p] = o]
      BY <1>4, <2>1
    <2> HIDE DEF o
    <2>4. op'[p] = o /\ \A q \in Procs : q # p => op'[q] = op[q]
      BY <2>2, <2>3, NewCall
    <2>5. mounts'[m].refs = {}
      BY <1>4 DEF MountsType
    <2> QED BY <1>1, <1>2, <2>2, <2>4, <2>5
  <1> QED BY <1>3, <1>4 DEF GetRWLayer, ReleaseRWLayer

\* releaseLayer counts down.
LEMMA DecFacts ==
  ASSUME StoreInv, NEW p \in Procs, Dec(p)
  PROVE  /\ op[p].pc = "dec" /\ op'[p].pc \in {"dec", "idle", "rmdata"}
         /\ \A q \in Procs : q # p => op'[q] = op[q]
         /\ UNCHANGED <<layerMap, cache, parent, mounts, driver, base>>
  <1> USE DEF StoreInv
  <1>1. op[p].pc = "dec" /\ UNCHANGED <<layerMap, cache, parent, mounts, driver, base>>
    BY DEF Dec, At, data
  <1>2. op' = op \/ Return(p) \/ Goto(p, "rmdata")
    BY DEF Dec
  <1>3. CASE op' = op
    BY <1>1, <1>3
  <1>4. CASE Return(p)
    BY <1>1, <1>4, ReturnFacts, IdleFacts, NewCall
  <1>5. CASE Goto(p, "rmdata")
    <2>1. PICK o \in Calls : op' = [op EXCEPT ![p] = o] /\ o.pc = "rmdata"
      BY <1>5, GotoFacts
    <2> QED BY <1>1, <2>1, NewCall
  <1> QED BY <1>2, <1>3, <1>4, <1>5

LEMMA EnterHeld ==
  ASSUME StoreInv, HeldInv, NEW p \in Procs, Enter(p)
  PROVE  HeldInv'
  <1>1. ASSUME NEW c \in Chains,
               Get(p, c) \/ Release(p, c) \/ Register(p, c) \/ \E m \in Mounts : CreateRWLayer(p, m, c)
        PROVE  HeldInv'
    BY <1>1, EnterFacts, CallHasNone
  <1>2. ASSUME NEW m \in Mounts, GetRWLayer(p, m) \/ ReleaseRWLayer(p, m)
        PROVE  HeldInv'
    <2>1. /\ op[p].pc = "idle" /\ mountL = NoProc
          /\ op'[p].pc = "idle" \/ (op'[p].pc = "rmrw" /\ op'[p].m = {m} /\ mounts'[m].refs = {})
          /\ \A q \in Procs : q # p => op'[q] = op[q]
          /\ UNCHANGED <<layerMap, cache, driver>>
          /\ \A n \in Mounts : mounts'[n].in = mounts[n].in /\ mounts'[n].rw = mounts[n].rw
                                                             /\ mounts'[n].init = mounts[n].init
      BY <1>2, EnterMountFacts
    <2>2. CallData(p)' = {} /\ \A e : ~Removes(p, e)
      BY <2>1, NoCallData DEF Removes
    <2>3. OwnersInv'
      BY <2>1, <2>2, OnlyCall, NothingTaken DEF HeldInv
    <2>4. ASSUME NEW q \in Procs, op'[q].pc \in {"rmrw", "rminit", "rmmount"}
          PROVE  mounts'[Mount(q)'].refs = {}
      <3>1. q = p
        BY <2>1, <2>4, NoDeletion DEF StoreInv
      <3>2. Mount(p)' = m
        BY <2>1, <2>4, <3>1 DEF Mount
      <3> QED BY <2>1, <2>4, <3>1, <3>2
    <2> QED BY <2>3, <2>4 DEF HeldInv, NobodyHolds
  <1> QED BY <1>1, <1>2 DEF Enter

LEMMA DecHeld ==
  ASSUME StoreInv, HeldInv, NEW p \in Procs, Dec(p)
  PROVE  HeldInv'
  BY DecFacts, CallHasNone

\* A call that fails forgets the data it has made; what is left is nobody's.
LEMMA FailHeld ==
  ASSUME StoreInv, HeldInv, NEW p \in Procs, Fail(p), UNCHANGED <<layerMap, cache, mounts>>,
         driver \subseteq driver', op[p].pc \notin {"rmrw", "rmmeta", "rminit", "rmmount"}
  PROVE  HeldInv'
  BY FailGivesUp, CallHasNone DEF StoreInv

\* The driver has a first layer that is free, if it has one.
LEMMA FirstFree ==
  ASSUME Free # {}
  PROVE  (CHOOSE e \in Free : \A f \in Free : e <= f) \in Free
  <1>1. Free \subseteq Nat
    BY BoundsAssumption DEF Free, Data
  <1> HIDE DEF Free
  <1>2. PICK x \in Free : \A y \in Free : ~(<<y, x>> \in OpToRel(<, Nat))
    BY <1>1, NatLessThanWellFounded, WFMin
  <1>3. ASSUME NEW y \in Free PROVE x <= y
    <2> SUFFICES ASSUME ~(x <= y) PROVE FALSE
      OBVIOUS
    <2>1. y < x /\ x \in Nat /\ y \in Nat
      BY <1>1
    <2> QED BY <1>2, <2>1 DEF OpToRel
  <1> QED BY <1>3

\* The driver never makes what somebody has.
LEMMA CreatedIsFree ==
  ASSUME StoreInv, NEW d, NEW b, DriverCreate(d, b)
  PROVE  /\ d \in Data /\ ~InUse(d)
         /\ \A o \in Owners : d \notin Has(o)
         /\ driver' = driver \cup {d}
  <1>1. d \in Free /\ driver' = driver \cup {d}
    BY FirstFree DEF DriverCreate
  <1> QED BY <1>1, OwnedIsInUse DEF Free

LEMMA MakesHeld ==
  ASSUME StoreInv, HeldInv, NEW p \in Procs, NEW o \in Calls, op' = [op EXCEPT ![p] = o],
         UNCHANGED <<layerMap, cache, mounts>>, NEW d, NEW b, DriverCreate(d, b),
         CallData(p)' \subseteq CallData(p) \cup {d},
         op[p].pc \in {"create", "init", "rw"}, o.pc \in {"apply", "rw", "save"}
  PROVE  HeldInv'
  <1> USE DEF StoreInv
  <1>1. op'[p] = o /\ \A q \in Procs : q # p => op'[q] = op[q]
    BY NewCall
  <1>2. \A e : ~Removes(p, e)
    BY DEF Removes
  <1>3. /\ \A e \in Owners : /\ e # CallOwner(p) => Has(e)' = Has(e)
                             /\ Vanishing(e) => Vanishing(e)'
        /\ CallOwner(p) \in Owners /\ Has(CallOwner(p)) = CallData(p) /\ Has(CallOwner(p))' = CallData(p)'
        /\ ~Vanishing(CallOwner(p))
    BY <1>1, <1>2, OnlyCall
  <1>4. OwnersInv'
    BY <1>3, CreatedIsFree, Made DEF HeldInv
  <1>5. NobodyHolds'
    BY <1>1, HoldersSame DEF HeldInv
  <1> QED BY <1>4, <1>5 DEF HeldInv

\* The driver makes a layer for a call, or does not.
LEMMA RegisterCreateFacts ==
  ASSUME StoreInv, NEW p \in Procs, RegisterCreate(p)
  PROVE  /\ op[p].pc = "create" /\ UNCHANGED <<layerMap, cache, parent, mounts>>
         /\ \/ \E d \in Data, o \in Calls :
                 /\ DriverCreate(d, CacheOf(op[p].cur)) /\ op' = [op EXCEPT ![p] = o]
                 /\ o.pc = "apply" /\ o.new = d /\ o.init = op[p].init /\ o.cur = op[p].cur
            \/ Fail(p) /\ DriverCreateFails(CacheOf(op[p].cur))
  <1> USE DEF StoreInv
  <1>1. op[p].pc = "create" /\ UNCHANGED <<layerMap, cache, parent, mounts>>
    BY DEF RegisterCreate, At, memory
  <1>2. ASSUME NEW d \in Data, op' = [op EXCEPT ![p].new = d, ![p].pc = "apply"]
        PROVE  \E o \in Calls : /\ op' = [op EXCEPT ![p] = o]
                                /\ o.pc = "apply" /\ o.new = d /\ o.init = op[p].init /\ o.cur = op[p].cur
    <2> DEFINE o == [op[p] EXCEPT !.new = d, !.pc = "apply"]
    <2>1. op[p] \in Calls /\ d \in Ids
      BY CallFields DEF Data, Ids
    <2>2. /\ o \in Calls /\ o.pc = "apply" /\ o.new = d /\ o.init = op[p].init /\ o.cur = op[p].cur
          /\ op' = [op EXCEPT ![p] = o]
      BY <1>2, <2>1 DEF Calls, CallsType
    <2> HIDE DEF o
    <2> QED BY <2>2
  <1> QED BY <1>1, <1>2 DEF RegisterCreate

LEMMA InitMountFacts ==
  ASSUME StoreInv, NEW p \in Procs, InitMount(p)
  PROVE  /\ op[p].pc = "init" /\ UNCHANGED <<layerMap, cache, parent, mounts>>
         /\ \/ \E d \in Data, o \in Calls :
                 /\ DriverCreate(d, CacheOf(op[p].cur)) /\ op' = [op EXCEPT ![p] = o]
                 /\ o.pc = "rw" /\ o.init = d /\ o.new = op[p].new /\ o.cur = op[p].cur
            \/ "init" \in Faults /\ Fail(p) /\ \E d \in Data : DriverCreate(d, CacheOf(op[p].cur))
            \/ Fail(p) /\ DriverCreateFails(CacheOf(op[p].cur))
  <1> USE DEF StoreInv
  <1>1. op[p].pc = "init" /\ UNCHANGED <<layerMap, cache, parent, mounts>>
    BY DEF InitMount, At, memory
  <1>2. ASSUME NEW d \in Data, op' = [op EXCEPT ![p].init = d, ![p].pc = "rw"]
        PROVE  \E o \in Calls : /\ op' = [op EXCEPT ![p] = o]
                                /\ o.pc = "rw" /\ o.init = d /\ o.new = op[p].new /\ o.cur = op[p].cur
    <2> DEFINE o == [op[p] EXCEPT !.init = d, !.pc = "rw"]
    <2>1. op[p] \in Calls /\ d \in Ids
      BY CallFields DEF Data, Ids
    <2>2. /\ o \in Calls /\ o.pc = "rw" /\ o.init = d /\ o.new = op[p].new /\ o.cur = op[p].cur
          /\ op' = [op EXCEPT ![p] = o]
      BY <1>2, <2>1 DEF Calls, CallsType
    <2> HIDE DEF o
    <2> QED BY <2>2
  <1> QED BY <1>1, <1>2 DEF InitMount

LEMMA CreateReadWriteFacts ==
  ASSUME StoreInv, NEW p \in Procs, CreateReadWrite(p)
  PROVE  /\ op[p].pc = "rw" /\ UNCHANGED <<layerMap, cache, parent, mounts>>
         /\ \/ \E d \in Data, o \in Calls :
                 /\ DriverCreate(d, op[p].init) /\ op' = [op EXCEPT ![p] = o]
                 /\ o.pc = "save" /\ o.new = d /\ o.init = op[p].init /\ o.cur = op[p].cur
            \/ Fail(p) /\ DriverCreateFails(op[p].init)
  <1> USE DEF StoreInv
  <1>1. op[p].pc = "rw" /\ UNCHANGED <<layerMap, cache, parent, mounts>>
    BY DEF CreateReadWrite, At, memory
  <1>2. ASSUME NEW d \in Data, op' = [op EXCEPT ![p].new = d, ![p].pc = "save"]
        PROVE  \E o \in Calls : /\ op' = [op EXCEPT ![p] = o]
                                /\ o.pc = "save" /\ o.new = d /\ o.init = op[p].init /\ o.cur = op[p].cur
    <2> DEFINE o == [op[p] EXCEPT !.new = d, !.pc = "save"]
    <2>1. op[p] \in Calls /\ d \in Ids
      BY CallFields DEF Data, Ids
    <2>2. /\ o \in Calls /\ o.pc = "save" /\ o.new = d /\ o.init = op[p].init /\ o.cur = op[p].cur
          /\ op' = [op EXCEPT ![p] = o]
      BY <1>2, <2>1 DEF Calls, CallsType
    <2> HIDE DEF o
    <2> QED BY <2>2
  <1> QED BY <1>1, <1>2 DEF CreateReadWrite

LEMMA RegisterCreateHeld ==
  ASSUME StoreInv, HeldInv, NEW p \in Procs, RegisterCreate(p)
  PROVE  HeldInv'
  <1> USE DEF StoreInv
  <1>1. ASSUME NEW d \in Data, NEW o \in Calls, DriverCreate(d, CacheOf(op[p].cur)), op' = [op EXCEPT ![p] = o],
               o.pc = "apply", o.new = d
        PROVE  HeldInv'
    <2>1. op'[p] = o
      BY <1>1, NewCall
    <2>2. CallData(p)' \subseteq CallData(p) \cup {d}
      BY <1>1, <2>1, RegisterCreateFacts DEF CallData
    <2> QED BY <1>1, <2>2, RegisterCreateFacts, MakesHeld
  <1>2. CASE Fail(p) /\ UNCHANGED data
    BY <1>2, RegisterCreateFacts, FailHeld DEF data
  <1> QED BY <1>1, <1>2, RegisterCreateFacts DEF DriverCreateFails

LEMMA InitMountHeld ==
  ASSUME StoreInv, HeldInv, NEW p \in Procs, InitMount(p)
  PROVE  HeldInv'
  <1> USE DEF StoreInv
  <1>1. ASSUME NEW d \in Data, NEW o \in Calls, DriverCreate(d, CacheOf(op[p].cur)), op' = [op EXCEPT ![p] = o],
               o.pc = "rw", o.init = d
        PROVE  HeldInv'
    <2>1. op'[p] = o
      BY <1>1, NewCall
    <2>2. CallData(p)' \subseteq CallData(p) \cup {d}
      BY <1>1, <2>1, InitMountFacts DEF CallData
    <2> QED BY <1>1, <2>2, InitMountFacts, MakesHeld
  <1>2. ASSUME Fail(p), driver \subseteq driver' PROVE HeldInv'
    BY <1>2, InitMountFacts, FailHeld
  <1>3. \A d \in Data : DriverCreate(d, CacheOf(op[p].cur)) => driver \subseteq driver'
    BY DEF DriverCreate
  <1>4. DriverCreateFails(CacheOf(op[p].cur)) => driver \subseteq driver'
    BY DEF DriverCreateFails, data
  <1> QED BY <1>1, <1>2, <1>3, <1>4, InitMountFacts

LEMMA CreateReadWriteHeld ==
  ASSUME StoreInv, HeldInv, NEW p \in Procs, CreateReadWrite(p)
  PROVE  HeldInv'
  <1> USE DEF StoreInv
  <1>1. ASSUME NEW d \in Data, NEW o \in Calls, DriverCreate(d, op[p].init), op' = [op EXCEPT ![p] = o],
               o.pc = "save", o.new = d, o.init = op[p].init
        PROVE  HeldInv'
    <2>1. op'[p] = o
      BY <1>1, NewCall
    <2>2. CallData(p)' \subseteq CallData(p) \cup {d}
      BY <1>1, <2>1, CreateReadWriteFacts DEF CallData
    <2> QED BY <1>1, <2>2, CreateReadWriteFacts, MakesHeld
  <1>2. CASE Fail(p) /\ UNCHANGED data
    BY <1>2, CreateReadWriteFacts, FailHeld DEF data
  <1> QED BY <1>1, <1>2, CreateReadWriteFacts DEF DriverCreateFails

\* A registration goes to its next place with the data it has made.
LEMMA KeepsNew ==
  ASSUME StoreInv, HeldInv, NEW p \in Procs, NEW pc, Goto(p, pc), UNCHANGED <<layerMap, cache, mounts, driver>>,
         op[p].pc \in {"apply", "commit"}, pc \in {"commit", "cleanup"}
  PROVE  HeldInv'
  <1>1. PICK o \in Calls : op' = [op EXCEPT ![p] = o] /\ o.pc = pc /\ o.new = op[p].new
    BY GotoFacts DEF StoreInv
  <1>2. op'[p] = o /\ \A q \in Procs : q # p => op'[q] = op[q]
    BY <1>1, NewCall DEF StoreInv
  <1>3. CallData(p)' \subseteq CallData(p)
    BY <1>1, <1>2 DEF CallData
  <1> QED BY <1>1, <1>2, <1>3, CallGoesOn

LEMMA RegisterApplyHeld ==
  ASSUME StoreInv, HeldInv, NEW p \in Procs, RegisterApply(p)
  PROVE  HeldInv'
  <1>1. op[p].pc = "apply" /\ UNCHANGED <<layerMap, cache, mounts, driver>>
    BY DEF RegisterApply, At, memory, data
  <1>2. Goto(p, "commit") \/ Goto(p, "cleanup") \/ Fail(p)
    BY DEF RegisterApply
  <1> QED BY <1>1, <1>2, KeepsNew, FailHeld

\* The layer that enters the map takes the data from the call.
LEMMA RegisterCommitHeld ==
  ASSUME StoreInv, HeldInv, NEW p \in Procs, RegisterCommit(p)
  PROVE  HeldInv'
  <1> USE DEF StoreInv
  <1>1. op[p].pc = "commit" /\ mounts' = mounts /\ driver' = driver
    BY DEF RegisterCommit, At, data
  <1>2. PICK c \in Chains : c = op[p].l
    BY <1>1 DEF CallsOK, CallOK
  <1>3. CASE Goto(p, "cleanup") /\ UNCHANGED <<layerMap, cache>>
    BY <1>1, <1>3, KeepsNew
  <1>4. CASE /\ c \notin layerMap
             /\ layerMap' = layerMap \cup {c}
             /\ cache' = [cache EXCEPT ![c] = op[p].new]
             /\ Return(p)
    <2>1. op'[p].pc = "idle" /\ \A q \in Procs : q # p => op'[q] = op[q]
      BY <1>4, ReturnFacts, IdleFacts, NewCall
    <2>2. cache'[c] = op[p].new /\ \A e \in Chains : e # c => cache'[e] = cache[e]
      BY <1>4 DEF MemoryType
    <2>3. /\ \A e \in Chains : e # c => LayerData(e)' = LayerData(e)
          /\ LayerData(c)' = {op[p].new} /\ CallData(p) = {op[p].new} /\ CallData(p)' = {}
      BY <1>1, <1>4, <2>1, <2>2 DEF LayerData, CallData
    <2>4. /\ \A m \in Mounts : Has(MountOwner(m))' = Has(MountOwner(m))
          /\ \A q \in Procs : q # p => Has(CallOwner(q))' = Has(CallOwner(q))
          /\ \A o : Vanishing(o) => Vanishing(o)' \/ Removes(p, o)
      BY <1>1, <2>1, OthersHave, MountsHave
    <2>5. \A o \in Owners : /\ o # CallOwner(p) /\ o # LayerOwner(c) => Has(o)' = Has(o)
                            /\ Vanishing(o) => Vanishing(o)'
      BY <1>1, <2>3, <2>4, HasFacts DEF Removes
    <2>6. /\ CallOwner(p) \in Owners /\ LayerOwner(c) \in Owners /\ CallOwner(p) # LayerOwner(c)
          /\ Has(LayerOwner(c))' \subseteq Has(CallOwner(p)) /\ Has(CallOwner(p))' = {}
          /\ ~Vanishing(CallOwner(p))
      BY <2>3, HasFacts, OwnersDiffer DEF Vanishing, Removes
    <2>7. OwnersInv'
      BY <1>1, <2>5, <2>6, Moved DEF HeldInv
    <2>8. NobodyHolds'
      BY <1>1, <2>1, HoldersSame DEF HeldInv
    <2> QED BY <2>7, <2>8 DEF HeldInv
  <1> QED BY <1>2, <1>3, <1>4 DEF RegisterCommit

LEMMA RegisterCleanupHeld ==
  ASSUME StoreInv, HeldInv, NEW p \in Procs, RegisterCleanup(p), "rmdata" \notin Faults
  PROVE  HeldInv'
  <1> USE DEF StoreInv
  <1>1. /\ op[p].pc = "cleanup" /\ UNCHANGED <<layerMap, cache, mounts>>
        /\ driver' = driver \ {op[p].new} /\ Fail(p)
    BY DEF RegisterCleanup, At, memory, DriverRemove
  <1>2. op'[p].pc \in {"idle", "dec"} /\ \A q \in Procs : q # p => op'[q] = op[q]
    BY <1>1, FailGivesUp
  <1>3. CallData(p) = {op[p].new} /\ CallData(p)' = {} /\ \A o : ~Removes(p, o)
    BY <1>1, <1>2 DEF CallData, Removes
  <1>4. /\ \A o \in Owners : /\ o # CallOwner(p) => Has(o)' = Has(o)
                             /\ Vanishing(o) => Vanishing(o)'
        /\ CallOwner(p) \in Owners /\ Has(CallOwner(p)) = CallData(p) /\ Has(CallOwner(p))' = CallData(p)'
    BY <1>1, <1>2, <1>3, OnlyCall
  <1>5. OwnersInv'
    BY <1>1, <1>3, <1>4, Deleted DEF HeldInv
  <1>6. NobodyHolds'
    BY <1>1, <1>2, HoldersSame DEF HeldInv
  <1> QED BY <1>5, <1>6 DEF HeldInv

\* The mount takes the data from the call that has made it.
LEMMA SaveMountHeld ==
  ASSUME StoreInv, HeldInv, NEW p \in Procs, SaveMount(p)
  PROVE  HeldInv'
  <1> USE DEF StoreInv
  <1>1. op[p].pc = "save" /\ UNCHANGED <<layerMap, cache, driver>>
    BY DEF SaveMount, At, memory, data
  <1>2. PICK m \in Mounts : m = Mount(p)
    BY <1>1, MountFacts
  <1>3. CASE Fail(p) /\ mounts' = mounts
    BY <1>1, <1>3, FailHeld
  <1>4. CASE /\ mounts' = [mounts EXCEPT ![m] = [in |-> TRUE, parent |-> op[p].cur, rw |-> op[p].new,
                                                 init |-> op[p].init, refs |-> {p}]]
             /\ Return(p)
    <2>1. op'[p].pc = "idle" /\ \A q \in Procs : q # p => op'[q] = op[q]
      BY <1>4, ReturnFacts, IdleFacts, NewCall
    <2>2. PICK r : /\ r = [in |-> TRUE, parent |-> op[p].cur, rw |-> op[p].new,
                           init |-> op[p].init, refs |-> {p}]
                   /\ mounts' = [mounts EXCEPT ![m] = r]
      BY <1>4
    <2>3. /\ r.rw = op[p].new /\ r.init = op[p].init /\ r.in
          /\ mounts'[m] = r /\ \A n \in Mounts : n # m => mounts'[n] = mounts[n]
      BY <2>2 DEF MountsType
    <2>4. /\ \A n \in Mounts : n # m => MountData(n)' = MountData(n)
          /\ MountData(m)' = {op[p].new, op[p].init}
          /\ CallData(p) = {op[p].new, op[p].init} /\ CallData(p)' = {}
      BY <1>1, <2>1, <2>3 DEF MountData, CallData
    <2>5. /\ \A c \in Chains : Has(LayerOwner(c))' = Has(LayerOwner(c))
          /\ \A q \in Procs : q # p => Has(CallOwner(q))' = Has(CallOwner(q))
          /\ \A o : Vanishing(o) => Vanishing(o)' \/ Removes(p, o)
      BY <1>1, <2>1, OthersHave, LayersHave
    <2>6. \A o \in Owners : /\ o # CallOwner(p) /\ o # MountOwner(m) => Has(o)' = Has(o)
                            /\ Vanishing(o) => Vanishing(o)'
      BY <1>1, <2>4, <2>5, HasFacts DEF Removes
    <2>7. /\ CallOwner(p) \in Owners /\ MountOwner(m) \in Owners /\ CallOwner(p) # MountOwner(m)
          /\ Has(MountOwner(m))' \subseteq Has(CallOwner(p)) /\ Has(CallOwner(p))' = {}
          /\ ~Vanishing(CallOwner(p))
      BY <2>4, HasFacts, OwnersDiffer DEF Vanishing, Removes
    <2>8. OwnersInv'
      BY <1>1, <2>6, <2>7, Moved DEF HeldInv
    <2>9. NobodyHolds'
      <3>1. ASSUME NEW q \in Procs, op'[q].pc \in {"rmrw", "rminit", "rmmount"} PROVE FALSE
        <4>1. q # p /\ op[q].pc \in {"rmrw", "rminit", "rmmount"}
          BY <2>1, <3>1
        <4>2. mountL = q /\ mountL = p
          BY <1>1, <4>1, MountFacts
        <4> QED BY <4>1, <4>2
      <3> QED BY <3>1 DEF NobodyHolds
    <2> QED BY <2>8, <2>9 DEF HeldInv
  <1> QED BY <1>2, <1>3, <1>4 DEF SaveMount

\* The data of a layer that is deleted goes first.
LEMMA RemoveDataHeld ==
  ASSUME StoreInv, HeldInv, NEW p \in Procs, RemoveData(p), "rmdata" \notin Faults
  PROVE  HeldInv'
  <1> USE DEF StoreInv
  <1>1. /\ op[p].pc = "rmdata" /\ UNCHANGED <<layerMap, cache, mounts>> /\ Goto(p, "rmmeta")
        /\ driver' = driver \ {cache[op[p].cur]}
    BY DEF RemoveData, At, memory, DriverRemove
  <1>2. PICK c \in Chains : c = op[p].cur /\ c \in layerMap
    BY <1>1 DEF CallsOK, CallOK
  <1>3. PICK o \in Calls : op' = [op EXCEPT ![p] = o] /\ o.pc = "rmmeta" /\ o.cur = c
    BY <1>1, <1>2, GotoFacts
  <1>4. op'[p] = o /\ \A q \in Procs : q # p => op'[q] = op[q]
    BY <1>3, NewCall
  <1>5. CallData(p)' = {} /\ \A e : ~Removes(p, e)
    BY <1>1, <1>3, <1>4 DEF CallData, Removes
  <1>6. \A e \in Owners : /\ Has(e)' \subseteq Has(e)
                          /\ Vanishing(e) => Vanishing(e)'
    BY <1>1, <1>4, <1>5, OnlyCall
  <1>7. /\ LayerOwner(c) \in Owners /\ Has(LayerOwner(c)) = {cache[c]}
        /\ Vanishing(LayerOwner(c))'
    <2>1. Removes(p, LayerOwner(c))'
      BY <1>3, <1>4 DEF Removes, LayerOwner
    <2> QED BY <1>2, <2>1, HasFacts DEF LayerData, Vanishing
  <1>8. OwnersInv'
    BY <1>1, <1>2, <1>6, <1>7, Deleted DEF HeldInv
  <1>9. NobodyHolds'
    BY <1>1, <1>3, <1>4, HoldersSame DEF HeldInv
  <1> QED BY <1>8, <1>9 DEF HeldInv

\* A layer whose metadata was removed leaves the map.
LEMMA RemoveMetaHeld ==
  ASSUME StoreInv, HeldInv, NEW p \in Procs, RemoveMeta(p), "rmmeta" \notin Faults
  PROVE  HeldInv'
  <1> USE DEF StoreInv
  <1>1. /\ op[p].pc = "rmmeta" /\ UNCHANGED <<mounts, driver>>
        /\ layerMap' = layerMap \ {op[p].cur}
        /\ cache' = [cache EXCEPT ![op[p].cur] = 0]
        /\ IF parent[op[p].cur] = <<>> THEN Return(p)
           ELSE op' = [op EXCEPT ![p].pc = "dec", ![p].cur = parent[op[p].cur]]
    BY DEF RemoveMeta, At, data
  <1>2. PICK c \in Chains : c = op[p].cur /\ c \in layerMap
    BY <1>1 DEF CallsOK, CallOK
  <1>3. op'[p].pc \in {"idle", "dec"} /\ \A q \in Procs : q # p => op'[q] = op[q]
    <2>1. CASE Return(p)
      BY <2>1, ReturnFacts, IdleFacts, NewCall
    <2>2. CASE op' = [op EXCEPT ![p].pc = "dec", ![p].cur = parent[c]]
      <3>1. parent[c] \in Bases
        BY DEF MemoryType
      <3>2. PICK o \in Calls : op' = [op EXCEPT ![p] = o] /\ o.pc = "dec"
        BY <2>2, <3>1, GotoRelease
      <3> QED BY <3>2, NewCall
    <2> QED BY <1>1, <1>2, <2>1, <2>2
  <1>4. CallData(p) = {} /\ CallData(p)' = {}
    BY <1>1, <1>3, NoCallData
  <1>5. /\ LayerData(c)' = {} /\ \A e \in Chains : e # c => LayerData(e)' = LayerData(e)
    BY <1>1, <1>2 DEF LayerData, MemoryType
  <1>6. /\ \A m \in Mounts : Has(MountOwner(m))' = Has(MountOwner(m))
        /\ \A q \in Procs : q # p => Has(CallOwner(q))' = Has(CallOwner(q))
        /\ \A o : Vanishing(o) => Vanishing(o)' \/ Removes(p, o)
    BY <1>1, <1>3, OthersHave, MountsHave
  <1>7. \A o : Removes(p, o) => o = LayerOwner(c)
    BY <1>1, <1>2 DEF Removes
  <1>8. \A o \in Owners : /\ Has(o)' \subseteq Has(o)
                          /\ Vanishing(o) => Vanishing(o)' \/ Has(o)' = {}
    BY <1>4, <1>5, <1>6, <1>7, HasFacts
  <1>9. OwnersInv'
    BY <1>1, <1>8, NothingTaken DEF HeldInv
  <1>10. NobodyHolds'
    BY <1>1, <1>3, HoldersSame DEF HeldInv
  <1> QED BY <1>9, <1>10 DEF HeldInv

\* The data of a mount that is deleted goes first, the writable layer before the other.
LEMMA MountDataHeld ==
  ASSUME StoreInv, HeldInv, NEW p \in Procs, NEW m \in Mounts, m = Mount(p), NEW pc, Goto(p, pc),
         UNCHANGED <<layerMap, cache, mounts>>,
         NEW d \in {mounts[m].rw, mounts[m].init}, driver' = driver \ {d},
         op[p].pc \in {"rmrw", "rminit"}, pc \in {"rminit", "rmmount"}
  PROVE  HeldInv'
  <1> USE DEF StoreInv
  <1>1. mounts[m].in
    BY MountFacts
  <1>2. PICK o \in Calls : op' = [op EXCEPT ![p] = o] /\ o.pc = pc /\ o.m = op[p].m
    BY GotoFacts
  <1>3. op'[p] = o /\ \A q \in Procs : q # p => op'[q] = op[q]
    BY <1>2, NewCall
  <1>4. Mount(p)' = m
    BY <1>2, <1>3 DEF Mount
  <1>5. CallData(p)' = {} /\ \A e : Removes(p, e) => Removes(p, e)'
    <2>1. \A e : Removes(p, e) => e = MountOwner(m)
      BY DEF Removes
    <2>2. Removes(p, MountOwner(m))'
      BY <1>2, <1>3, <1>4 DEF Removes, MountOwner
    <2> QED BY <1>2, <1>3, <2>1, <2>2, NoCallData
  <1>6. Vanishing(MountOwner(m))'
    BY <1>2, <1>3, <1>4 DEF Vanishing, Removes, MountOwner
  <1>7. \A e \in Owners : /\ Has(e)' \subseteq Has(e)
                          /\ Vanishing(e) => Vanishing(e)'
    <2>1. \A e : Removes(p, e)' => Vanishing(e)'
      BY DEF Vanishing
    <2> QED BY <1>3, <1>5, <2>1, OnlyCall
  <1>8. MountOwner(m) \in Owners /\ d \in Has(MountOwner(m))
    BY <1>1, HasFacts DEF MountData
  <1>9. OwnersInv'
    BY <1>6, <1>7, <1>8, Deleted DEF HeldInv
  <1>10. NobodyHolds'
    BY <1>2, <1>3, HoldersSame DEF HeldInv
  <1> QED BY <1>9, <1>10 DEF HeldInv

LEMMA RemoveRWHeld ==
  ASSUME StoreInv, HeldInv, NEW p \in Procs, RemoveRW(p), "rmdata" \notin Faults
  PROVE  HeldInv'
  <1>1. /\ op[p].pc = "rmrw" /\ UNCHANGED <<layerMap, cache, mounts>> /\ Goto(p, "rminit")
        /\ driver' = driver \ {mounts[Mount(p)].rw}
    BY DEF RemoveRW, At, memory, DriverRemove
  <1>2. PICK m \in Mounts : m = Mount(p)
    BY <1>1, MountFacts DEF StoreInv
  <1> QED BY <1>1, <1>2, MountDataHeld

LEMMA RemoveInitHeld ==
  ASSUME StoreInv, HeldInv, NEW p \in Procs, RemoveInit(p), "rmdata" \notin Faults
  PROVE  HeldInv'
  <1>1. /\ op[p].pc = "rminit" /\ UNCHANGED <<layerMap, cache, mounts>> /\ Goto(p, "rmmount")
        /\ driver' = driver \ {mounts[Mount(p)].init}
    BY DEF RemoveInit, At, memory, DriverRemove
  <1>2. PICK m \in Mounts : m = Mount(p)
    BY <1>1, MountFacts DEF StoreInv
  <1> QED BY <1>1, <1>2, MountDataHeld

\* A mount leaves the map.
LEMMA RemoveMountHeld ==
  ASSUME StoreInv, HeldInv, NEW p \in Procs, RemoveMount(p), "rmmeta" \notin Faults
  PROVE  HeldInv'
  <1> USE DEF StoreInv
  <1>1. /\ op[p].pc = "rmmount" /\ UNCHANGED <<layerMap, cache, driver>>
        /\ mounts' = [mounts EXCEPT ![Mount(p)] = NoMount]
        /\ IF mounts[Mount(p)].parent = <<>> THEN Return(p)
           ELSE op' = [op EXCEPT ![p].pc = "dec", ![p].cur = mounts[Mount(p)].parent]
    BY DEF RemoveMount, At, memory, data
  <1>2. PICK m \in Mounts : m = Mount(p) /\ mountL = p
    BY <1>1, MountFacts
  <1>3. op'[p].pc \in {"idle", "dec"} /\ \A q \in Procs : q # p => op'[q] = op[q]
    <2>1. CASE Return(p)
      BY <2>1, ReturnFacts, IdleFacts, NewCall
    <2>2. CASE op' = [op EXCEPT ![p].pc = "dec", ![p].cur = mounts[m].parent]
      <3>1. mounts[m].parent \in Bases
        BY DEF MountsType
      <3>2. PICK o \in Calls : op' = [op EXCEPT ![p] = o] /\ o.pc = "dec"
        BY <2>2, <3>1, GotoRelease
      <3> QED BY <3>2, NewCall
    <2> QED BY <1>1, <1>2, <2>1, <2>2
  <1>4. CallData(p) = {} /\ CallData(p)' = {}
    BY <1>1, <1>3, NoCallData
  <1>5. MountData(m)' = {} /\ \A n \in Mounts : n # m => MountData(n)' = MountData(n)
    BY <1>1, <1>2 DEF MountData, MountsType, NoMount
  <1>6. /\ \A c \in Chains : Has(LayerOwner(c))' = Has(LayerOwner(c))
        /\ \A q \in Procs : q # p => Has(CallOwner(q))' = Has(CallOwner(q))
        /\ \A o : Vanishing(o) => Vanishing(o)' \/ Removes(p, o)
    BY <1>1, <1>3, OthersHave, LayersHave
  <1>7. \A o : Removes(p, o) => o = MountOwner(m)
    BY <1>1, <1>2 DEF Removes
  <1>8. \A o \in Owners : /\ Has(o)' \subseteq Has(o)
                          /\ Vanishing(o) => Vanishing(o)' \/ Has(o)' = {}
    BY <1>4, <1>5, <1>6, <1>7, HasFacts
  <1>9. OwnersInv'
    BY <1>1, <1>8, NothingTaken DEF HeldInv
  <1>10. NobodyHolds'
    <2>1. ASSUME NEW q \in Procs, op'[q].pc \in {"rmrw", "rminit", "rmmount"} PROVE FALSE
      <3>1. q # p /\ op[q].pc \in {"rmrw", "rminit", "rmmount"}
        BY <1>3, <2>1
      <3>2. mountL = q
        BY <3>1, MountFacts
      <3> QED BY <1>2, <3>1, <3>2
    <2> QED BY <2>1 DEF NobodyHolds
  <1> QED BY <1>9, <1>10 DEF HeldInv

\* Removing data and metadata neither fails nor is cut short.
RemovalsWork == {"rmdata", "rmmeta", "crash"} \cap Faults = {}

LEMMA HeldStep ==
  ASSUME StoreInv, HeldInv, RemovalsWork, [Next]_vars
  PROVE  HeldInv'
  <1>1. "rmdata" \notin Faults /\ "rmmeta" \notin Faults /\ "crash" \notin Faults
    BY DEF RemovalsWork
  <1>2. ASSUME NEW p \in Procs, Enter(p) PROVE HeldInv'
    BY <1>2, EnterHeld
  <1>3. ASSUME NEW p \in Procs, Step(p) PROVE HeldInv'
    BY <1>1, <1>3, DecHeld, RemoveDataHeld, RemoveMetaHeld, RegisterCreateHeld, RegisterApplyHeld,
       RegisterCommitHeld, RegisterCleanupHeld, InitMountHeld, CreateReadWriteHeld, SaveMountHeld,
       RemoveRWHeld, RemoveInitHeld, RemoveMountHeld DEF Step
  <1>4. ~Crash
    BY <1>1 DEF Crash
  <1>5. CASE UNCHANGED vars
    <2>1. /\ \A c \in Chains : LayerData(c)' = LayerData(c)
          /\ \A m \in Mounts : MountData(m)' = MountData(m)
          /\ \A p \in Procs : CallData(p)' = CallData(p)
      BY <1>5 DEF vars, LayerData, MountData, CallData
    <2>2. \A o \in Owners : Has(o)' = Has(o)
      BY <2>1, HasFacts
    <2>3. driver' = driver /\ \A o : Vanishing(o) <=> Vanishing(o)'
      BY <1>5 DEF vars, Vanishing, Removes, Mount
    <2>4. OwnersInv'
      BY <2>2, <2>3, NothingTaken DEF HeldInv
    <2>5. NobodyHolds'
      BY <1>5 DEF HeldInv, NobodyHolds, Mount, vars
    <2> QED BY <2>4, <2>5 DEF HeldInv
  <1> QED BY <1>2, <1>3, <1>4, <1>5 DEF Next

LEMMA HeldInit == Init => HeldInv
  <1> SUFFICES ASSUME Init PROVE HeldInv
    OBVIOUS
  <1>1. \A c \in Chains : LayerData(c) = {}
    BY DEF Init, LayerData
  <1>2. \A m \in Mounts : MountData(m) = {}
    BY DEF Init, MountData, NoMount
  <1>3. \A p \in Procs : op[p].pc = "idle" /\ CallData(p) = {}
    BY NoCallData, IdleFacts DEF Init
  <1>4. \A o \in Owners : Has(o) = {}
    BY <1>1, <1>2, <1>3, HasFacts
  <1> QED BY <1>3, <1>4 DEF HeldInv, OwnersInv, OwnData, OneOwner, Present, NobodyHolds

\* What somebody holds has its data.
DataHeld ==
  /\ \A c \in layerMap : count[c] > 0 => cache[c] \in driver
  /\ \A m \in Mounts :
       mounts[m].in /\ mounts[m].refs # {} => {mounts[m].rw, mounts[m].init} \subseteq driver

LEMMA HeldIsPresent ==
  ASSUME StoreInv, HeldInv
  PROVE  DataHeld
  <1> USE DEF StoreInv
  <1>1. ASSUME NEW c \in layerMap, count[c] > 0 PROVE cache[c] \in driver
    <2>1. c \in Chains
      BY DEF MemoryType
    <2>2. ~Vanishing(LayerOwner(c))
      <3>1. ASSUME NEW p \in Procs, Removes(p, LayerOwner(c)) PROVE FALSE
        <4>1. op[p].pc = "rmmeta" /\ op[p].cur = c
          BY <3>1, OwnersDiffer DEF Removes
        <4>2. count[c] = 0
          BY <4>1 DEF CallsOK, CallOK
        <4> QED BY <1>1, <4>2
      <3> QED BY <3>1 DEF Vanishing
    <2>3. Has(LayerOwner(c)) = {cache[c]} /\ LayerOwner(c) \in Owners
      BY <2>1, HasFacts DEF LayerData
    <2> QED BY <2>2, <2>3 DEF HeldInv, OwnersInv, Present
  <1>2. ASSUME NEW m \in Mounts, mounts[m].in, mounts[m].refs # {}
        PROVE  {mounts[m].rw, mounts[m].init} \subseteq driver
    <2>1. ~Vanishing(MountOwner(m))
      <3>1. ASSUME NEW p \in Procs, Removes(p, MountOwner(m)) PROVE FALSE
        <4>1. op[p].pc \in {"rminit", "rmmount"} /\ Mount(p) = m
          BY <3>1, OwnersDiffer DEF Removes
        <4>2. mounts[m].refs = {}
          BY <4>1 DEF HeldInv, NobodyHolds
        <4> QED BY <1>2, <4>2
      <3> QED BY <3>1 DEF Vanishing
    <2>2. Has(MountOwner(m)) = {mounts[m].rw, mounts[m].init} /\ MountOwner(m) \in Owners
      BY <1>2, HasFacts DEF MountData
    <2> QED BY <2>1, <2>2 DEF HeldInv, OwnersInv, Present
  <1> QED BY <1>1, <1>2 DEF DataHeld

\* As long as removals neither fail nor are cut short, every layer and every mount that
\* somebody holds has its data in the driver, whatever else fails: no call deletes what is
\* another's, and none gets what is being deleted (layer_store.go:405-492, 593-630).
THEOREM HeldDataPresent ==
  ASSUME RemovalsWork
  PROVE  Spec => []DataHeld
  <1>1. StoreInv /\ HeldInv /\ [Next]_vars => HeldInv'
    BY HeldStep
  <1>2. StoreInv /\ HeldInv => DataHeld
    BY HeldIsPresent
  <1> QED BY <1>1, <1>2, HeldInit, StoreInvariant, PTL DEF Spec

\* What every layer of the driver was made on, as long as it is there: that of a layer on that
\* of its parent, the writable one of a mount on its init layer, this one on that of the image.
LayerRests(c) == c \in layerMap /\ cache[c] \in driver => base[cache[c]] = CacheOf(parent[c])
MountRests(m) ==
  mounts[m].in =>
    /\ mounts[m].init \in driver => base[mounts[m].init] = CacheOf(mounts[m].parent)
    /\ mounts[m].rw \in driver => base[mounts[m].rw] = mounts[m].init /\ mounts[m].init \in driver
CallRests(p) ==
  LET o == op[p]
  IN /\ o.pc \in {"apply", "commit", "cleanup"} => base[o.new] = CacheOf(o.cur)
     /\ o.pc \in {"rw", "save"} => base[o.init] = CacheOf(o.cur)
     /\ o.pc = "save" => base[o.new] = o.init

\* What a deletion has removed already.
CallGone(p) ==
  /\ op[p].pc = "rmmeta" => cache[op[p].cur] \notin driver
  /\ op[p].pc \in {"rminit", "rmmount"} => mounts[Mount(p)].rw \notin driver
  /\ op[p].pc = "rmmount" => mounts[Mount(p)].init \notin driver

\* Everything in the driver is somebody's.
Owned == \A d \in driver : \E o \in Owners : d \in Has(o)

RestInv ==
  /\ Owned
  /\ \A c \in Chains : LayerRests(c)
  /\ \A m \in Mounts : MountRests(m)
  /\ \A p \in Procs : CallRests(p) /\ CallGone(p)

\* What a layer, a mount or a call is on is in the map, and retained.
LEMMA NeededLayers ==
  ASSUME StoreInv
  PROVE  /\ \A c \in layerMap : parent[c] # <<>> =>
              parent[c] \in layerMap /\ parent[c] \in Chains /\ count[parent[c]] # 0
         /\ \A m \in Mounts : mounts[m].in /\ mounts[m].parent # <<>> =>
              mounts[m].parent \in layerMap /\ mounts[m].parent \in Chains /\ count[mounts[m].parent] # 0
         /\ \A p \in Procs : op[p].pc \notin {"idle", "rmdata", "rmmeta"} /\ op[p].cur # <<>> =>
              op[p].cur \in layerMap /\ op[p].cur \in Chains /\ count[op[p].cur] # 0
  <1> USE DEF StoreInv
  <1>1. ASSUME NEW c \in layerMap, parent[c] # <<>>
        PROVE  parent[c] \in layerMap /\ parent[c] \in Chains /\ count[parent[c]] # 0
    <2>1. parent[c] \in Chains /\ c \in Children(parent[c])
      BY <1>1 DEF MemoryType, Bases, Children
    <2> QED BY <2>1, CountFacts
  <1>2. ASSUME NEW m \in Mounts, mounts[m].in, mounts[m].parent # <<>>
        PROVE  mounts[m].parent \in layerMap /\ mounts[m].parent \in Chains /\ count[mounts[m].parent] # 0
    <2>1. mounts[m].parent \in Chains /\ m \in MountsOn(mounts[m].parent)
      BY <1>2 DEF MountsType, Bases, MountsOn
    <2> QED BY <2>1, CountFacts
  <1>3. ASSUME NEW p \in Procs, op[p].pc \notin {"idle", "rmdata", "rmmeta"}, op[p].cur # <<>>
        PROVE  op[p].cur \in layerMap /\ op[p].cur \in Chains /\ count[op[p].cur] # 0
    <2>1. op[p].cur \in Chains /\ p \in Retainers(op[p].cur)
      BY <1>3, CallFields DEF Bases, Retainers
    <2> QED BY <2>1, CountFacts
  <1> QED BY <1>1, <1>2, <1>3

\* What those that are there have is where they say.
LEMMA HasMembers ==
  /\ \A c \in layerMap : c \in Chains => cache[c] \in Has(LayerOwner(c))
  /\ \A m \in Mounts : mounts[m].in =>
       mounts[m].rw \in Has(MountOwner(m)) /\ mounts[m].init \in Has(MountOwner(m))
  /\ \A p \in Procs :
       /\ op[p].pc \in {"apply", "commit", "cleanup", "save"} => op[p].new \in Has(CallOwner(p))
       /\ op[p].pc \in {"rw", "save"} => op[p].init \in Has(CallOwner(p))
  BY HasFacts DEF LayerData, MountData, CallData

\* Other calls when p makes a step: what they have was made on the same, and is gone or not.
LEMMA OthersRest ==
  ASSUME RestInv, NEW q \in Procs, op'[q] = op[q],
         op[q].pc \notin {"idle", "rmdata", "rmmeta"} => CacheOf(op[q].cur)' = CacheOf(op[q].cur),
         op[q].pc = "rmmeta" => cache'[op[q].cur] = cache[op[q].cur],
         op[q].pc \in {"rminit", "rmmount"} => mounts'[Mount(q)].rw = mounts[Mount(q)].rw
                                               /\ mounts'[Mount(q)].init = mounts[Mount(q)].init,
         \A d \in Has(CallOwner(q)) : base'[d] = base[d],
         \A d \in driver' : d \in driver \/ (\A e \in Owners : d \notin Has(e)),
         op[q].pc = "rmmeta" => LayerOwner(op[q].cur) \in Owners /\ cache[op[q].cur] \in Has(LayerOwner(op[q].cur)),
         op[q].pc \in {"rminit", "rmmount"} =>
           /\ MountOwner(Mount(q)) \in Owners
           /\ {mounts[Mount(q)].rw, mounts[Mount(q)].init} \subseteq Has(MountOwner(Mount(q)))
  PROVE  CallRests(q)' /\ CallGone(q)'
  <1>1. CallRests(q) /\ CallGone(q)
    BY DEF RestInv
  <1>2. Mount(q)' = Mount(q)
    BY DEF Mount
  <1>3. CallRests(q)'
    BY <1>1, HasMembers DEF CallRests
  <1>4. CallGone(q)'
    BY <1>1, <1>2 DEF CallGone
  <1> QED BY <1>3, <1>4

\* What a deletion that has begun works on.
LEMMA Deleting ==
  ASSUME StoreInv, NEW q \in Procs
  PROVE  /\ op[q].pc = "rmmeta" =>
              /\ op[q].cur \in layerMap /\ op[q].cur \in Chains /\ count[op[q].cur] = 0 /\ layerL = q
              /\ LayerOwner(op[q].cur) \in Owners /\ cache[op[q].cur] \in Has(LayerOwner(op[q].cur))
         /\ op[q].pc \in {"rminit", "rmmount"} =>
              /\ Mount(q) \in Mounts /\ mounts[Mount(q)].in /\ mountL = q
              /\ MountOwner(Mount(q)) \in Owners
              /\ {mounts[Mount(q)].rw, mounts[Mount(q)].init} \subseteq Has(MountOwner(Mount(q)))
  <1> USE DEF StoreInv
  <1>1. ASSUME op[q].pc = "rmmeta"
        PROVE  /\ op[q].cur \in layerMap /\ op[q].cur \in Chains /\ count[op[q].cur] = 0 /\ layerL = q
               /\ LayerOwner(op[q].cur) \in Owners /\ cache[op[q].cur] \in Has(LayerOwner(op[q].cur))
    <2>1. op[q].cur \in layerMap /\ op[q].cur \in Chains /\ count[op[q].cur] = 0 /\ layerL = q
      BY <1>1 DEF CallsOK, CallOK
    <2> QED BY <2>1, HasFacts, HasMembers
  <1>2. ASSUME op[q].pc \in {"rminit", "rmmount"}
        PROVE  /\ Mount(q) \in Mounts /\ mounts[Mount(q)].in /\ mountL = q
               /\ MountOwner(Mount(q)) \in Owners
               /\ {mounts[Mount(q)].rw, mounts[Mount(q)].init} \subseteq Has(MountOwner(Mount(q)))
    <2>1. PICK m \in Mounts : m = Mount(q) /\ mounts[m].in /\ mountL = q
      BY <1>2, MountFacts
    <2>2. MountOwner(m) \in Owners /\ mounts[m].rw \in Has(MountOwner(m)) /\ mounts[m].init \in Has(MountOwner(m))
      BY <2>1, HasFacts, HasMembers
    <2> QED BY <2>1, <2>2
  <1> QED BY <1>1, <1>2

\* Steps that change no data, no layer and no mount.
LEMMA RestCall ==
  ASSUME StoreInv, RestInv, NEW p \in Procs, \A q \in Procs : q # p => op'[q] = op[q],
         UNCHANGED <<layerMap, cache, parent, driver, base>>,
         \A m \in Mounts : /\ mounts'[m].in = mounts[m].in /\ mounts'[m].parent = mounts[m].parent
                           /\ mounts'[m].rw = mounts[m].rw /\ mounts'[m].init = mounts[m].init,
         CallData(p) \subseteq CallData(p)', CallRests(p)', CallGone(p)'
  PROVE  RestInv'
  <1>1. Owned'
    <2>1. \A o \in Owners : Has(o) \subseteq Has(o)'
      BY OnlyCall
    <2> QED BY <2>1 DEF RestInv, Owned
  <1>2. \A c : CacheOf(c)' = CacheOf(c)
    BY DEF CacheOf
  <1>3. \A c \in Chains : LayerRests(c)'
    BY <1>2 DEF RestInv, LayerRests
  <1>4. \A m \in Mounts : MountRests(m)'
    BY <1>2 DEF RestInv, MountRests
  <1>5. ASSUME NEW q \in Procs, q # p PROVE CallRests(q)' /\ CallGone(q)'
    <2>1. op'[q] = op[q]
      BY <1>5
    <2>2. CacheOf(op[q].cur)' = CacheOf(op[q].cur)
      BY <2>1 DEF CacheOf
    <2>3. op[q].pc \in {"rminit", "rmmount"} => Mount(q) \in Mounts
      BY Deleting
    <2> QED BY <2>1, <2>2, <2>3, Deleting, OthersRest
  <1> QED BY <1>1, <1>3, <1>4, <1>5 DEF RestInv

\* A call that has no data and has deleted none.
LEMMA CallIsQuiet ==
  ASSUME NEW p \in Procs, op'[p].pc \in {"idle", "dec", "rmdata", "create", "init", "rmrw"}
  PROVE  CallRests(p)' /\ CallGone(p)'
  BY DEF CallRests, CallGone

LEMMA RestQuiet ==
  ASSUME StoreInv, RestInv, NEW p \in Procs, \A q \in Procs : q # p => op'[q] = op[q],
         UNCHANGED <<layerMap, cache, parent, driver, base>>,
         \A m \in Mounts : /\ mounts'[m].in = mounts[m].in /\ mounts'[m].parent = mounts[m].parent
                           /\ mounts'[m].rw = mounts[m].rw /\ mounts'[m].init = mounts[m].init,
         op[p].pc \notin {"apply", "commit", "cleanup", "rw", "save"},
         op'[p].pc \in {"idle", "dec", "rmdata", "create", "init", "rmrw"}
  PROVE  RestInv'
  <1>1. CallData(p) = {}
    BY NoCallData
  <1> QED BY <1>1, CallIsQuiet, RestCall

\* The driver makes a layer for a call.
LEMMA RestMake ==
  ASSUME StoreInv, RestInv, NEW p \in Procs, \A q \in Procs : q # p => op'[q] = op[q],
         UNCHANGED <<layerMap, cache, parent, mounts>>, NEW d, NEW b, DriverCreate(d, b),
         CallData(p) \cup {d} \subseteq CallData(p)', CallRests(p)', CallGone(p)'
  PROVE  RestInv'
  <1>1. /\ driver' = driver \cup {d} /\ \A o \in Owners : d \notin Has(o)
        /\ base' = [base EXCEPT ![d] = b] /\ d \in Data
    BY CreatedIsFree DEF DriverCreate
  <1>2. \A e : e # d => base'[e] = base[e]
    BY <1>1 DEF StoreInv, DataType
  <1>3. \A o \in Owners : Has(o) \subseteq Has(o)'
    BY OnlyCall
  <1>4. d \in Has(CallOwner(p))' /\ CallOwner(p) \in Owners
    BY HasFacts
  <1>5. Owned'
    BY <1>1, <1>3, <1>4 DEF RestInv, Owned
  <1>6. \A c : CacheOf(c)' = CacheOf(c)
    BY DEF CacheOf
  <1>7. ASSUME NEW c \in Chains PROVE LayerRests(c)'
    <2>1. c \in layerMap => cache[c] # d
      BY <1>1, HasFacts, HasMembers
    <2> QED BY <1>1, <1>2, <1>6, <2>1 DEF RestInv, LayerRests
  <1>8. ASSUME NEW m \in Mounts PROVE MountRests(m)'
    <2>1. mounts[m].in => mounts[m].rw # d /\ mounts[m].init # d
      BY <1>1, HasFacts, HasMembers
    <2> QED BY <1>1, <1>2, <1>6, <2>1 DEF RestInv, MountRests
  <1>9. ASSUME NEW q \in Procs, q # p PROVE CallRests(q)' /\ CallGone(q)'
    <2>1. op'[q] = op[q]
      BY <1>9
    <2>2. CacheOf(op[q].cur)' = CacheOf(op[q].cur)
      BY <2>1 DEF CacheOf
    <2>3. \A e \in Has(CallOwner(q)) : base'[e] = base[e]
      BY <1>1, <1>2, HasFacts
    <2>4. \A e \in driver' : e \in driver \/ (\A o \in Owners : e \notin Has(o))
      BY <1>1
    <2> QED BY <2>1, <2>2, <2>3, <2>4, Deleting, OthersRest
  <1> QED BY <1>5, <1>7, <1>8, <1>9 DEF RestInv

\* The driver deletes a layer of o.
LEMMA RestDelete ==
  ASSUME StoreInv, HeldInv, RestInv, NEW p \in Procs, \A q \in Procs : q # p => op'[q] = op[q],
         UNCHANGED <<layerMap, cache, parent, mounts>>,
         NEW o \in Owners, NEW d \in Has(o), DriverRemove(d),
         \A q \in Procs : q # p => o # CallOwner(q),
         \A m \in Mounts : o = MountOwner(m) => mounts[m].rw \notin driver \/ mounts[m].rw = d,
         CallData(p) \subseteq CallData(p)' \cup {d}, CallRests(p)', CallGone(p)'
  PROVE  RestInv'
  <1>1. driver' = driver \ {d} /\ base' = [e \in Data |-> IF e = d THEN 0 ELSE base[e]]
    BY DEF DriverRemove
  <1>2. \A e \in Data : e # d => base'[e] = base[e]
    BY <1>1
  <1>3. \A e \in Owners : /\ Has(e) \subseteq Has(e)' \cup {d} /\ Has(e) \subseteq Data
                          /\ e # o => d \notin Has(e)
    BY OnlyCall DEF HeldInv, OwnersInv, OwnData, OneOwner
  <1>4. Owned'
    BY <1>1, <1>3 DEF RestInv, Owned
  <1>5. \A c : CacheOf(c)' = CacheOf(c)
    BY DEF CacheOf
  <1>6. ASSUME NEW c \in Chains PROVE LayerRests(c)'
    <2>1. c \in layerMap => cache[c] \in Data
      BY <1>3, HasFacts, HasMembers
    <2> QED BY <1>1, <1>2, <1>5, <2>1 DEF RestInv, LayerRests
  <1>7. ASSUME NEW m \in Mounts PROVE MountRests(m)'
    <2>1. mounts[m].in => mounts[m].rw \in Data /\ mounts[m].init \in Data
      BY <1>3, HasFacts, HasMembers
    <2>2. mounts[m].in /\ mounts[m].init = d => mounts[m].rw \notin driver'
      BY <1>1, <1>3, HasFacts, HasMembers
    <2> QED BY <1>1, <1>2, <1>5, <2>1, <2>2 DEF RestInv, MountRests
  <1>8. ASSUME NEW q \in Procs, q # p PROVE CallRests(q)' /\ CallGone(q)'
    <2>1. op'[q] = op[q]
      BY <1>8
    <2>2. CacheOf(op[q].cur)' = CacheOf(op[q].cur)
      BY <2>1 DEF CacheOf
    <2>3. \A e \in Has(CallOwner(q)) : base'[e] = base[e]
      BY <1>2, <1>3, <1>8, HasFacts
    <2> QED BY <1>1, <2>1, <2>2, <2>3, Deleting, OthersRest
  <1> QED BY <1>4, <1>6, <1>7, <1>8 DEF RestInv

\* Nothing but what registerWithDescriptor cleans up after goes wrong.
CleanedUp == Faults \subseteq {"apply", "commit"}

LEMMA EnterRest ==
  ASSUME StoreInv, RestInv, NEW p \in Procs, Enter(p)
  PROVE  RestInv'
  <1>1. ASSUME NEW c \in Chains,
               Get(p, c) \/ Release(p, c) \/ Register(p, c) \/ \E m \in Mounts : CreateRWLayer(p, m, c)
        PROVE  RestInv'
    BY <1>1, EnterFacts, RestQuiet
  <1>2. ASSUME NEW m \in Mounts, GetRWLayer(p, m) \/ ReleaseRWLayer(p, m)
        PROVE  RestInv'
    BY <1>2, EnterMountFacts, RestQuiet
  <1> QED BY <1>1, <1>2 DEF Enter

LEMMA DecRest ==
  ASSUME StoreInv, RestInv, NEW p \in Procs, Dec(p)
  PROVE  RestInv'
  BY DecFacts, RestQuiet

\* A call fails that has made nothing.
LEMMA FailRest ==
  ASSUME StoreInv, RestInv, NEW p \in Procs, Fail(p), UNCHANGED <<layerMap, cache, parent, mounts, driver, base>>,
         op[p].pc \in {"create", "init"}
  PROVE  RestInv'
  BY FailGivesUp, RestQuiet DEF StoreInv

LEMMA RegisterCreateRest ==
  ASSUME StoreInv, RestInv, NEW p \in Procs, RegisterCreate(p)
  PROVE  RestInv'
  <1> USE DEF StoreInv
  <1>1. op[p].pc = "create" /\ UNCHANGED <<layerMap, cache, parent, mounts>>
    BY RegisterCreateFacts
  <1>2. ASSUME NEW d \in Data, NEW o \in Calls, DriverCreate(d, CacheOf(op[p].cur)), op' = [op EXCEPT ![p] = o],
               o.pc = "apply", o.new = d, o.cur = op[p].cur
        PROVE  RestInv'
    <2>1. op'[p] = o /\ \A q \in Procs : q # p => op'[q] = op[q]
      BY <1>2, NewCall
    <2>2. CallData(p) \cup {d} \subseteq CallData(p)'
      BY <1>1, <1>2, <2>1 DEF CallData
    <2>3. base'[d] = CacheOf(op[p].cur)
      BY <1>2 DEF DriverCreate, DataType
    <2>4. CacheOf(op[p].cur)' = CacheOf(op[p].cur)
      BY <1>1, <1>2, <2>1 DEF CacheOf
    <2>5. CallRests(p)' /\ CallGone(p)'
      BY <1>2, <2>1, <2>3, <2>4 DEF CallRests, CallGone
    <2> QED BY <1>1, <1>2, <2>1, <2>2, <2>5, RestMake
  <1>3. CASE Fail(p) /\ UNCHANGED data
    BY <1>1, <1>3, FailRest DEF data
  <1> QED BY <1>2, <1>3, RegisterCreateFacts DEF DriverCreateFails

LEMMA InitMountRest ==
  ASSUME StoreInv, RestInv, CleanedUp, NEW p \in Procs, InitMount(p)
  PROVE  RestInv'
  <1> USE DEF StoreInv
  <1>1. op[p].pc = "init" /\ UNCHANGED <<layerMap, cache, parent, mounts>>
    BY InitMountFacts
  <1>2. ASSUME NEW d \in Data, NEW o \in Calls, DriverCreate(d, CacheOf(op[p].cur)), op' = [op EXCEPT ![p] = o],
               o.pc = "rw", o.init = d, o.cur = op[p].cur
        PROVE  RestInv'
    <2>1. op'[p] = o /\ \A q \in Procs : q # p => op'[q] = op[q]
      BY <1>2, NewCall
    <2>2. CallData(p) \cup {d} \subseteq CallData(p)'
      BY <1>1, <1>2, <2>1 DEF CallData
    <2>3. base'[d] = CacheOf(op[p].cur)
      BY <1>2 DEF DriverCreate, DataType
    <2>4. CacheOf(op[p].cur)' = CacheOf(op[p].cur)
      BY <1>1, <1>2, <2>1 DEF CacheOf
    <2>5. CallRests(p)' /\ CallGone(p)'
      BY <1>2, <2>1, <2>3, <2>4 DEF CallRests, CallGone
    <2> QED BY <1>1, <1>2, <2>1, <2>2, <2>5, RestMake
  <1>3. CASE Fail(p) /\ UNCHANGED data
    BY <1>1, <1>3, FailRest DEF data
  <1>4. "init" \notin Faults
    BY DEF CleanedUp
  <1> QED BY <1>2, <1>3, <1>4, InitMountFacts DEF DriverCreateFails

\* With room the second layer of a mount cannot fail: the first one is there.
LEMMA CreateReadWriteRest ==
  ASSUME StoreInv, HeldInv, RestInv, CleanedUp, Free # {}, NEW p \in Procs, CreateReadWrite(p)
  PROVE  RestInv'
  <1> USE DEF StoreInv
  <1>1. op[p].pc = "rw" /\ UNCHANGED <<layerMap, cache, parent, mounts>>
    BY CreateReadWriteFacts
  <1>2. op[p].init \in Has(CallOwner(p)) /\ CallOwner(p) \in Owners /\ op[p].init \in driver
    <2>1. op[p].init \in Has(CallOwner(p)) /\ CallOwner(p) \in Owners
      BY <1>1, HasFacts, HasMembers
    <2>2. ~Vanishing(CallOwner(p))
      BY OwnersDiffer DEF Vanishing, Removes
    <2> QED BY <2>1, <2>2 DEF HeldInv, OwnersInv, Present
  <1>3. ASSUME NEW d \in Data, NEW o \in Calls, DriverCreate(d, op[p].init), op' = [op EXCEPT ![p] = o],
               o.pc = "save", o.new = d, o.init = op[p].init, o.cur = op[p].cur
        PROVE  RestInv'
    <2>1. op'[p] = o /\ \A q \in Procs : q # p => op'[q] = op[q]
      BY <1>3, NewCall
    <2>2. CallData(p) \cup {d} \subseteq CallData(p)'
      BY <1>1, <1>3, <2>1 DEF CallData
    <2>3. base'[d] = op[p].init /\ base'[op[p].init] = base[op[p].init]
      <3>1. op[p].init # d
        BY <1>2, <1>3, CreatedIsFree
      <3> QED BY <1>3, <3>1 DEF DriverCreate, DataType
    <2>4. CacheOf(op[p].cur)' = CacheOf(op[p].cur)
      BY <1>1, <1>3, <2>1 DEF CacheOf
    <2>5. base[op[p].init] = CacheOf(op[p].cur)
      BY <1>1 DEF RestInv, CallRests
    <2>6. CallRests(p)' /\ CallGone(p)'
      BY <1>3, <2>1, <2>3, <2>4, <2>5 DEF CallRests, CallGone
    <2> QED BY <1>1, <1>3, <2>1, <2>2, <2>6, RestMake
  <1>4. ~DriverCreateFails(op[p].init)
    <2>1. "create" \notin Faults
      BY DEF CleanedUp
    <2> QED BY <1>2, <2>1 DEF DriverCreateFails
  <1> QED BY <1>3, <1>4, CreateReadWriteFacts

\* A registration goes on with the data it has made.
LEMMA KeepsNewRest ==
  ASSUME StoreInv, RestInv, NEW p \in Procs, NEW pc, Goto(p, pc),
         UNCHANGED <<layerMap, cache, parent, mounts, driver, base>>,
         op[p].pc \in {"apply", "commit"}, pc \in {"commit", "cleanup"}
  PROVE  RestInv'
  <1> USE DEF StoreInv
  <1>1. PICK o \in Calls : /\ op' = [op EXCEPT ![p] = o]
                          /\ o.pc = pc /\ o.new = op[p].new /\ o.cur = op[p].cur
    BY GotoFacts
  <1>2. op'[p] = o /\ \A q \in Procs : q # p => op'[q] = op[q]
    BY <1>1, NewCall
  <1>3. CallData(p) \subseteq CallData(p)'
    BY <1>1, <1>2 DEF CallData
  <1>4. CacheOf(op[p].cur)' = CacheOf(op[p].cur) /\ base[op[p].new] = CacheOf(op[p].cur)
    BY <1>1, <1>2 DEF CacheOf, RestInv, CallRests
  <1>5. CallRests(p)' /\ CallGone(p)'
    BY <1>1, <1>2, <1>4 DEF CallRests, CallGone
  <1> QED BY <1>2, <1>3, <1>5, RestCall

LEMMA RegisterApplyRest ==
  ASSUME StoreInv, RestInv, CleanedUp, NEW p \in Procs, RegisterApply(p)
  PROVE  RestInv'
  <1>1. op[p].pc = "apply" /\ UNCHANGED <<layerMap, cache, parent, mounts, driver, base>>
    BY DEF RegisterApply, At, memory, data
  <1>2. Goto(p, "commit") \/ Goto(p, "cleanup")
    BY DEF RegisterApply, CleanedUp
  <1> QED BY <1>1, <1>2, KeepsNewRest

\* A layer enters the map on what its data was made on.
LEMMA RegisterCommitRest ==
  ASSUME StoreInv, RestInv, NEW p \in Procs, RegisterCommit(p)
  PROVE  RestInv'
  <1> USE DEF StoreInv
  <1>1. op[p].pc = "commit" /\ UNCHANGED <<mounts, driver, base>>
    BY DEF RegisterCommit, At, data
  <1>2. PICK c \in Chains : c = op[p].l
    BY <1>1 DEF CallsOK, CallOK
  <1>3. CASE Goto(p, "cleanup") /\ UNCHANGED <<layerMap, cache, parent>>
    BY <1>1, <1>3, KeepsNewRest
  <1>4. CASE /\ c \notin layerMap
             /\ layerMap' = layerMap \cup {c}
             /\ cache' = [cache EXCEPT ![c] = op[p].new]
             /\ parent' = [parent EXCEPT ![c] = op[p].cur]
             /\ Return(p)
    <2>1. op'[p].pc = "idle" /\ \A q \in Procs : q # p => op'[q] = op[q]
      BY <1>4, ReturnFacts, IdleFacts, NewCall
    <2>2. /\ cache'[c] = op[p].new /\ parent'[c] = op[p].cur
          /\ \A e \in Chains : e # c => cache'[e] = cache[e] /\ parent'[e] = parent[e]
      BY <1>4 DEF MemoryType
    <2>3. \A x : (x = <<>> \/ x \in layerMap) => CacheOf(x)' = CacheOf(x)
      BY <1>4, <2>2 DEF CacheOf, MemoryType
    <2>4. \A e \in Chains : e # c => LayerRests(e)'
      <3> TAKE e \in Chains
      <3>1. e \in layerMap => parent[e] = <<>> \/ parent[e] \in layerMap
        BY NeededLayers
      <3> QED BY <1>1, <1>4, <2>2, <2>3, <3>1 DEF RestInv, LayerRests, CacheOf
    <2>5. LayerRests(c)'
      <3>1. op[p].cur = <<>> \/ op[p].cur \in layerMap
        BY <1>1, NeededLayers
      <3>2. base[op[p].new] = CacheOf(op[p].cur)
        BY <1>1 DEF RestInv, CallRests
      <3> QED BY <1>1, <1>4, <2>2, <2>3, <3>1, <3>2 DEF LayerRests, CacheOf
    <2>6. \A m \in Mounts : MountRests(m)'
      <3> TAKE m \in Mounts
      <3>1. mounts[m].in => mounts[m].parent = <<>> \/ mounts[m].parent \in layerMap
        BY NeededLayers
      <3> QED BY <1>1, <2>3, <3>1 DEF RestInv, MountRests, CacheOf
    <2>7. ASSUME NEW q \in Procs PROVE CallRests(q)' /\ CallGone(q)'
      <3>1. CASE q = p
        BY <2>1, <3>1, CallIsQuiet
      <3>2. CASE q # p
        <4>1. op'[q] = op[q]
          BY <2>1, <3>2
        <4>2. op[q].pc \notin {"idle", "rmdata", "rmmeta"} => op[q].cur = <<>> \/ op[q].cur \in layerMap
          BY NeededLayers
        <4>3. op[q].pc \notin {"idle", "rmdata", "rmmeta"} => CacheOf(op[q].cur)' = CacheOf(op[q].cur)
          BY <2>3, <4>1, <4>2 DEF CacheOf
        <4>4. op[q].pc = "rmmeta" => cache'[op[q].cur] = cache[op[q].cur]
          BY <1>4, <2>2, Deleting
        <4> QED BY <1>1, <4>1, <4>3, <4>4, Deleting, OthersRest
      <3> QED BY <3>1, <3>2
    <2>8. Owned'
      <3>1. /\ \A e \in Chains : e # c => LayerData(e)' = LayerData(e)
            /\ LayerData(c) = {} /\ CallData(p) = LayerData(c)'
        BY <1>1, <1>4, <2>1, <2>2 DEF LayerData, CallData
      <3>2. /\ \A m \in Mounts : Has(MountOwner(m))' = Has(MountOwner(m))
            /\ \A q \in Procs : q # p => Has(CallOwner(q))' = Has(CallOwner(q))
        BY <1>1, <2>1, OthersHave, MountsHave
      <3>3. \A o \in Owners : \E t \in Owners : Has(o) \subseteq Has(t)'
        BY <1>2, <3>1, <3>2, HasFacts
      <3> QED BY <1>1, <3>3 DEF RestInv, Owned
    <2> QED BY <2>4, <2>5, <2>6, <2>7, <2>8 DEF RestInv
  <1> QED BY <1>2, <1>3, <1>4 DEF RegisterCommit

LEMMA RegisterCleanupRest ==
  ASSUME StoreInv, HeldInv, RestInv, CleanedUp, NEW p \in Procs, RegisterCleanup(p)
  PROVE  RestInv'
  <1>1. /\ op[p].pc = "cleanup" /\ UNCHANGED <<layerMap, cache, parent, mounts>>
        /\ DriverRemove(op[p].new) /\ Fail(p)
    BY DEF RegisterCleanup, At, memory, CleanedUp
  <1>2. op'[p].pc \in {"idle", "dec"} /\ \A q \in Procs : q # p => op'[q] = op[q]
    BY <1>1, FailGivesUp DEF StoreInv
  <1>3. PICK d : d = op[p].new
    OBVIOUS
  <1>4. CallOwner(p) \in Owners /\ d \in Has(CallOwner(p)) /\ CallData(p) = {d}
    BY <1>1, <1>3, HasFacts, HasMembers DEF CallData
  <1>5. CallRests(p)' /\ CallGone(p)'
    BY <1>2, CallIsQuiet
  <1> QED BY <1>1, <1>2, <1>3, <1>4, <1>5, OwnersDiffer, RestDelete

\* The mount takes its layers over with what they were made on.
LEMMA SaveMountRest ==
  ASSUME StoreInv, HeldInv, RestInv, CleanedUp, NEW p \in Procs, SaveMount(p)
  PROVE  RestInv'
  <1> USE DEF StoreInv
  <1>1. op[p].pc = "save" /\ UNCHANGED <<layerMap, cache, parent, driver, base>>
    BY DEF SaveMount, At, memory, data
  <1>2. PICK m \in Mounts : m = Mount(p) /\ mountL = p
    BY <1>1, MountFacts
  <1>3. /\ mounts' = [mounts EXCEPT ![m] = [in |-> TRUE, parent |-> op[p].cur, rw |-> op[p].new,
                                            init |-> op[p].init, refs |-> {p}]]
        /\ Return(p) /\ ~mounts[m].in
    BY <1>1, <1>2, MountFacts DEF SaveMount, CleanedUp
  <1>4. op'[p].pc = "idle" /\ \A q \in Procs : q # p => op'[q] = op[q]
    BY <1>3, ReturnFacts, IdleFacts, NewCall
  <1>5. PICK r : /\ r = [in |-> TRUE, parent |-> op[p].cur, rw |-> op[p].new,
                         init |-> op[p].init, refs |-> {p}]
                 /\ mounts' = [mounts EXCEPT ![m] = r]
    BY <1>3
  <1>6. /\ r.rw = op[p].new /\ r.init = op[p].init /\ r.in /\ r.parent = op[p].cur
        /\ mounts'[m] = r /\ \A n \in Mounts : n # m => mounts'[n] = mounts[n]
    BY <1>5 DEF MountsType
  <1>7. \A c : CacheOf(c)' = CacheOf(c)
    BY <1>1 DEF CacheOf
  <1>8. \A c \in Chains : LayerRests(c)'
    BY <1>1, <1>7 DEF RestInv, LayerRests, CacheOf
  <1>9. MountRests(m)'
    <2>1. /\ base[op[p].init] = CacheOf(op[p].cur) /\ base[op[p].new] = op[p].init
      BY <1>1 DEF RestInv, CallRests
    <2>2. op[p].init \in driver
      <3>1. op[p].init \in Has(CallOwner(p)) /\ CallOwner(p) \in Owners
        BY <1>1, HasFacts, HasMembers
      <3>2. ~Vanishing(CallOwner(p))
        BY OwnersDiffer DEF Vanishing, Removes
      <3> QED BY <3>1, <3>2 DEF HeldInv, OwnersInv, Present
    <2> QED BY <1>1, <1>6, <1>7, <2>1, <2>2 DEF MountRests, CacheOf
  <1>10. \A n \in Mounts : n # m => MountRests(n)'
    BY <1>1, <1>6, <1>7 DEF RestInv, MountRests, CacheOf
  <1>11. ASSUME NEW q \in Procs PROVE CallRests(q)' /\ CallGone(q)'
    <2>1. CASE q = p
      BY <1>4, <2>1, CallIsQuiet
    <2>2. CASE q # p
      <3>1. op'[q] = op[q] /\ CacheOf(op[q].cur)' = CacheOf(op[q].cur)
        BY <1>1, <1>4, <2>2 DEF CacheOf
      <3>2. op[q].pc \notin {"rminit", "rmmount"}
        BY <1>2, <2>2, Deleting
      <3> QED BY <1>1, <3>1, <3>2, Deleting, OthersRest
    <2> QED BY <2>1, <2>2
  <1>12. Owned'
    <2>1. /\ \A n \in Mounts : n # m => MountData(n)' = MountData(n)
          /\ MountData(m) = {} /\ CallData(p) \subseteq MountData(m)'
      BY <1>1, <1>3, <1>6 DEF MountData, CallData
    <2>2. /\ \A c \in Chains : Has(LayerOwner(c))' = Has(LayerOwner(c))
          /\ \A q \in Procs : q # p => Has(CallOwner(q))' = Has(CallOwner(q))
      BY <1>1, <1>4, OthersHave, LayersHave
    <2>3. \A o \in Owners : \E t \in Owners : Has(o) \subseteq Has(t)'
      BY <1>2, <2>1, <2>2, HasFacts
    <2> QED BY <1>1, <2>3 DEF RestInv, Owned
  <1> QED BY <1>8, <1>9, <1>10, <1>11, <1>12 DEF RestInv

LEMMA RemoveDataRest ==
  ASSUME StoreInv, HeldInv, RestInv, CleanedUp, NEW p \in Procs, RemoveData(p)
  PROVE  RestInv'
  <1> USE DEF StoreInv
  <1>1. /\ op[p].pc = "rmdata" /\ UNCHANGED <<layerMap, cache, parent, mounts>> /\ Goto(p, "rmmeta")
        /\ DriverRemove(cache[op[p].cur])
    BY DEF RemoveData, At, memory, CleanedUp
  <1>2. PICK c \in Chains : c = op[p].cur /\ c \in layerMap
    BY <1>1 DEF CallsOK, CallOK
  <1>3. PICK o \in Calls : op' = [op EXCEPT ![p] = o] /\ o.pc = "rmmeta" /\ o.cur = c
    BY <1>1, <1>2, GotoFacts
  <1>4. op'[p] = o /\ \A q \in Procs : q # p => op'[q] = op[q]
    BY <1>3, NewCall
  <1>5. PICK d : d = cache[c]
    OBVIOUS
  <1>6. LayerOwner(c) \in Owners /\ d \in Has(LayerOwner(c)) /\ CallData(p) = {}
    BY <1>1, <1>2, <1>5, HasFacts, HasMembers, NoCallData
  <1>7. CallRests(p)' /\ CallGone(p)'
    <2>1. cache'[c] \notin driver'
      BY <1>1, <1>2 DEF DriverRemove
    <2> QED BY <1>3, <1>4, <2>1 DEF CallRests, CallGone
  <1>8. /\ \A q \in Procs : q # p => LayerOwner(c) # CallOwner(q)
        /\ \A m \in Mounts : LayerOwner(c) # MountOwner(m)
    BY OwnersDiffer
  <1>9. DriverRemove(d) /\ CallData(p) \subseteq CallData(p)' \cup {d}
    BY <1>1, <1>2, <1>5, <1>6
  <1> QED BY <1>1, <1>4, <1>6, <1>7, <1>8, <1>9, RestDelete

\* A layer leaves the map: nothing is on it, and its data is gone.
LEMMA RemoveMetaRest ==
  ASSUME StoreInv, HeldInv, RestInv, CleanedUp, NEW p \in Procs, RemoveMeta(p)
  PROVE  RestInv'
  <1> USE DEF StoreInv
  <1>1. /\ op[p].pc = "rmmeta" /\ UNCHANGED <<mounts, driver, base>>
        /\ layerMap' = layerMap \ {op[p].cur}
        /\ cache' = [cache EXCEPT ![op[p].cur] = 0]
        /\ parent' = [parent EXCEPT ![op[p].cur] = <<>>]
        /\ IF parent[op[p].cur] = <<>> THEN Return(p)
           ELSE op' = [op EXCEPT ![p].pc = "dec", ![p].cur = parent[op[p].cur]]
    BY DEF RemoveMeta, At, data, CleanedUp
  <1>2. PICK c \in Chains : c = op[p].cur /\ c \in layerMap /\ count[c] = 0 /\ layerL = p
    BY <1>1, Deleting
  <1>3. op'[p].pc \in {"idle", "dec"} /\ \A q \in Procs : q # p => op'[q] = op[q]
    <2>1. CASE Return(p)
      BY <2>1, ReturnFacts, IdleFacts, NewCall
    <2>2. CASE op' = [op EXCEPT ![p].pc = "dec", ![p].cur = parent[c]]
      <3>1. parent[c] \in Bases
        BY DEF MemoryType
      <3>2. PICK o \in Calls : op' = [op EXCEPT ![p] = o] /\ o.pc = "dec"
        BY <2>2, <3>1, GotoRelease
      <3> QED BY <3>2, NewCall
    <2> QED BY <1>1, <1>2, <2>1, <2>2
  <1>4. \A e \in Chains : e # c => cache'[e] = cache[e] /\ parent'[e] = parent[e]
    BY <1>1, <1>2 DEF MemoryType
  <1>5. \A x : x = <<>> \/ (x \in Chains /\ count[x] # 0) => CacheOf(x)' = CacheOf(x)
    BY <1>2, <1>4 DEF CacheOf
  <1>6. \A e \in Chains : LayerRests(e)'
    <2> TAKE e \in Chains
    <2>1. e \in layerMap => parent[e] = <<>> \/ (parent[e] \in Chains /\ count[parent[e]] # 0)
      BY NeededLayers
    <2> QED BY <1>1, <1>2, <1>4, <1>5, <2>1 DEF RestInv, LayerRests, CacheOf
  <1>7. \A m \in Mounts : MountRests(m)'
    <2> TAKE m \in Mounts
    <2>1. mounts[m].in => mounts[m].parent = <<>> \/ (mounts[m].parent \in Chains /\ count[mounts[m].parent] # 0)
      BY NeededLayers
    <2> QED BY <1>1, <1>5, <2>1 DEF RestInv, MountRests, CacheOf
  <1>8. ASSUME NEW q \in Procs PROVE CallRests(q)' /\ CallGone(q)'
    <2>1. CASE q = p
      BY <1>3, <2>1, CallIsQuiet
    <2>2. CASE q # p
      <3>1. op'[q] = op[q]
        BY <1>3, <2>2
      <3>2. op[q].pc \notin {"idle", "rmdata", "rmmeta"} =>
              op[q].cur = <<>> \/ (op[q].cur \in Chains /\ count[op[q].cur] # 0)
        BY NeededLayers
      <3>3. op[q].pc \notin {"idle", "rmdata", "rmmeta"} => CacheOf(op[q].cur)' = CacheOf(op[q].cur)
        BY <1>5, <3>1, <3>2 DEF CacheOf
      <3>4. op[q].pc # "rmmeta"
        BY <1>2, <2>2, Deleting
      <3> QED BY <1>1, <3>1, <3>3, <3>4, Deleting, OthersRest
    <2> QED BY <2>1, <2>2
  <1>9. Owned'
    <2>1. /\ LayerData(c) = {cache[c]} /\ cache[c] \notin driver
          /\ \A e \in Chains : e # c => LayerData(e)' = LayerData(e)
      BY <1>1, <1>2, <1>4 DEF LayerData, RestInv, CallGone
    <2>2. /\ \A m \in Mounts : Has(MountOwner(m))' = Has(MountOwner(m))
          /\ \A q \in Procs : q # p => Has(CallOwner(q))' = Has(CallOwner(q))
      BY <1>1, <1>3, OthersHave, MountsHave
    <2>3. CallData(p) = {}
      BY <1>1, NoCallData
    <2>4. \A o \in Owners : Has(o) \subseteq Has(o)' \cup {cache[c]}
      BY <2>1, <2>2, <2>3, HasFacts
    <2> QED BY <1>1, <2>1, <2>4 DEF RestInv, Owned
  <1> QED BY <1>6, <1>7, <1>8, <1>9 DEF RestInv

\* The data of a mount is removed, the writable layer first, which is on the other.
LEMMA MountDataRest ==
  ASSUME StoreInv, HeldInv, RestInv, NEW p \in Procs, NEW m \in Mounts, m = Mount(p), NEW pc, Goto(p, pc),
         UNCHANGED <<layerMap, cache, parent, mounts>>, NEW d, DriverRemove(d),
         \/ op[p].pc = "rmrw" /\ pc = "rminit" /\ d = mounts[m].rw
         \/ op[p].pc = "rminit" /\ pc = "rmmount" /\ d = mounts[m].init
  PROVE  RestInv'
  <1> USE DEF StoreInv
  <1>1. mounts[m].in
    BY MountFacts
  <1>2. PICK o \in Calls : op' = [op EXCEPT ![p] = o] /\ o.pc = pc /\ o.m = op[p].m
    BY GotoFacts
  <1>3. op'[p] = o /\ \A q \in Procs : q # p => op'[q] = op[q]
    BY <1>2, NewCall
  <1>4. Mount(p)' = m
    BY <1>2, <1>3 DEF Mount
  <1>5. MountOwner(m) \in Owners /\ d \in Has(MountOwner(m)) /\ CallData(p) = {}
    BY <1>1, HasFacts, HasMembers, NoCallData
  <1>6. op[p].pc = "rminit" => mounts[m].rw \notin driver
    BY DEF RestInv, CallGone
  <1>7. CallRests(p)' /\ CallGone(p)'
    <2>1. driver' = driver \ {d}
      BY DEF DriverRemove
    <2> QED BY <1>2, <1>3, <1>4, <1>6, <2>1 DEF CallRests, CallGone
  <1>8. \A n \in Mounts : MountOwner(m) = MountOwner(n) => mounts[n].rw \notin driver \/ mounts[n].rw = d
    BY <1>6, OwnersDiffer
  <1>9. \A q \in Procs : MountOwner(m) # CallOwner(q)
    BY OwnersDiffer
  <1> QED BY <1>3, <1>5, <1>7, <1>8, <1>9, RestDelete

LEMMA RemoveRWRest ==
  ASSUME StoreInv, HeldInv, RestInv, CleanedUp, NEW p \in Procs, RemoveRW(p) \/ RemoveInit(p)
  PROVE  RestInv'
  <1>1. UNCHANGED <<layerMap, cache, parent, mounts>>
    BY DEF RemoveRW, RemoveInit, memory, CleanedUp
  <1>2. op[p].pc \in {"rmrw", "rminit"}
    BY DEF RemoveRW, RemoveInit, At
  <1>3. PICK m \in Mounts : m = Mount(p)
    BY <1>2, MountFacts DEF StoreInv
  <1>4. CASE RemoveRW(p)
    <2>1. op[p].pc = "rmrw" /\ Goto(p, "rminit") /\ DriverRemove(mounts[m].rw)
      BY <1>3, <1>4 DEF RemoveRW, At, CleanedUp
    <2> QED BY <1>1, <1>3, <2>1, MountDataRest
  <1>5. CASE RemoveInit(p)
    <2>1. op[p].pc = "rminit" /\ Goto(p, "rmmount") /\ DriverRemove(mounts[m].init)
      BY <1>3, <1>5 DEF RemoveInit, At, CleanedUp
    <2> QED BY <1>1, <1>3, <2>1, MountDataRest
  <1> QED BY <1>4, <1>5

\* A mount leaves the map, its data is gone.
LEMMA RemoveMountRest ==
  ASSUME StoreInv, HeldInv, RestInv, CleanedUp, NEW p \in Procs, RemoveMount(p)
  PROVE  RestInv'
  <1> USE DEF StoreInv
  <1>1. /\ op[p].pc = "rmmount" /\ UNCHANGED <<layerMap, cache, parent, driver, base>>
        /\ mounts' = [mounts EXCEPT ![Mount(p)] = NoMount]
        /\ IF mounts[Mount(p)].parent = <<>> THEN Return(p)
           ELSE op' = [op EXCEPT ![p].pc = "dec", ![p].cur = mounts[Mount(p)].parent]
    BY DEF RemoveMount, At, memory, data, CleanedUp
  <1>2. PICK m \in Mounts : m = Mount(p) /\ mountL = p /\ mounts[m].in
    BY <1>1, MountFacts
  <1>3. op'[p].pc \in {"idle", "dec"} /\ \A q \in Procs : q # p => op'[q] = op[q]
    <2>1. CASE Return(p)
      BY <2>1, ReturnFacts, IdleFacts, NewCall
    <2>2. CASE op' = [op EXCEPT ![p].pc = "dec", ![p].cur = mounts[m].parent]
      <3>1. mounts[m].parent \in Bases
        BY DEF MountsType
      <3>2. PICK o \in Calls : op' = [op EXCEPT ![p] = o] /\ o.pc = "dec"
        BY <2>2, <3>1, GotoRelease
      <3> QED BY <3>2, NewCall
    <2> QED BY <1>1, <1>2, <2>1, <2>2
  <1>4. ~mounts'[m].in /\ \A n \in Mounts : n # m => mounts'[n] = mounts[n]
    BY <1>1, <1>2 DEF MountsType, NoMount
  <1>5. \A c : CacheOf(c)' = CacheOf(c)
    BY <1>1 DEF CacheOf
  <1>6. \A c \in Chains : LayerRests(c)'
    BY <1>1, <1>5 DEF RestInv, LayerRests, CacheOf
  <1>7. \A n \in Mounts : MountRests(n)'
    BY <1>1, <1>4, <1>5 DEF RestInv, MountRests, CacheOf
  <1>8. ASSUME NEW q \in Procs PROVE CallRests(q)' /\ CallGone(q)'
    <2>1. CASE q = p
      BY <1>3, <2>1, CallIsQuiet
    <2>2. CASE q # p
      <3>1. op'[q] = op[q] /\ CacheOf(op[q].cur)' = CacheOf(op[q].cur)
        BY <1>1, <1>3, <2>2 DEF CacheOf
      <3>2. op[q].pc \notin {"rminit", "rmmount"}
        BY <1>2, <2>2, Deleting
      <3> QED BY <1>1, <3>1, <3>2, Deleting, OthersRest
    <2> QED BY <2>1, <2>2
  <1>9. Owned'
    <2>1. /\ MountData(m) \cap driver = {}
          /\ \A n \in Mounts : n # m => MountData(n)' = MountData(n)
      BY <1>1, <1>2, <1>4 DEF MountData, RestInv, CallGone
    <2>2. /\ \A c \in Chains : Has(LayerOwner(c))' = Has(LayerOwner(c))
          /\ \A q \in Procs : q # p => Has(CallOwner(q))' = Has(CallOwner(q))
      BY <1>1, <1>3, OthersHave, LayersHave
    <2>3. CallData(p) = {}
      BY <1>1, NoCallData
    <2>4. \A o \in Owners : Has(o) \cap driver \subseteq Has(o)'
      BY <2>1, <2>2, <2>3, HasFacts
    <2> QED BY <1>1, <2>4 DEF RestInv, Owned
  <1> QED BY <1>6, <1>7, <1>8, <1>9 DEF RestInv

LEMMA RestStep ==
  ASSUME StoreInv, HeldInv, RestInv, CleanedUp, Free # {}, [Next]_vars
  PROVE  RestInv'
  <1>1. ASSUME NEW p \in Procs, Step(p) PROVE RestInv'
    BY <1>1, DecRest, RemoveDataRest, RemoveMetaRest, RegisterCreateRest, RegisterApplyRest,
       RegisterCommitRest, RegisterCleanupRest, InitMountRest, CreateReadWriteRest, SaveMountRest,
       RemoveRWRest, RemoveMountRest DEF Step
  <1>2. ~Crash
    BY DEF Crash, CleanedUp
  <1>3. CASE UNCHANGED vars
    <2>1. /\ \A c \in Chains : LayerData(c)' = LayerData(c)
          /\ \A m \in Mounts : MountData(m)' = MountData(m)
          /\ \A p \in Procs : CallData(p)' = CallData(p)
      BY <1>3 DEF vars, LayerData, MountData, CallData
    <2>2. \A o \in Owners : Has(o)' = Has(o)
      BY <2>1, HasFacts
    <2>3. Owned'
      BY <1>3, <2>2 DEF vars, RestInv, Owned
    <2>4. /\ \A c \in Chains : LayerRests(c)'
          /\ \A m \in Mounts : MountRests(m)'
      BY <1>3 DEF vars, RestInv, LayerRests, MountRests, CacheOf
    <2>5. \A p \in Procs : CallRests(p)' /\ CallGone(p)'
      BY <1>3 DEF vars, RestInv, CallRests, CallGone, CacheOf, Mount
    <2> QED BY <2>3, <2>4, <2>5 DEF RestInv
  <1> QED BY <1>1, <1>2, <1>3, EnterRest DEF Next

LEMMA RestInit == Init => RestInv
  <1> SUFFICES ASSUME Init PROVE RestInv
    OBVIOUS
  <1>1. driver = {} /\ layerMap = {} /\ \A m \in Mounts : ~mounts[m].in
    BY DEF Init, NoMount
  <1>2. \A p \in Procs : op[p].pc = "idle"
    BY IdleFacts DEF Init
  <1> QED BY <1>1, <1>2 DEF RestInv, Owned, LayerRests, MountRests, CallRests, CallGone

\* Whatever the driver has was made on something that is there, and is known to the store.
LEMMA RestIsPresent ==
  ASSUME StoreInv, HeldInv, RestInv
  PROVE  DataPresent /\ NoOrphanData
  <1>1. DataHeld
    BY HeldIsPresent
  <1>2. ASSUME NEW d \in driver, base[d] # 0 PROVE base[d] \in driver
    <2>1. ASSUME NEW c, c = <<>> \/ (c \in layerMap /\ c \in Chains /\ count[c] # 0), base[d] = CacheOf(c)
          PROVE  base[d] \in driver
      <3>1. c # <<>>
        BY <1>2, <2>1 DEF CacheOf
      <3>2. count[c] > 0
        BY <2>1, <3>1 DEF StoreInv, MemoryType
      <3> QED BY <1>1, <2>1, <3>1, <3>2 DEF DataHeld, CacheOf
    <2>2. ASSUME NEW c \in Chains, d \in LayerData(c) PROVE base[d] \in driver
      BY <2>1, <2>2, NeededLayers DEF LayerData, RestInv, LayerRests
    <2>3. ASSUME NEW m \in Mounts, d \in MountData(m) PROVE base[d] \in driver
      <3>1. mounts[m].in /\ d \in {mounts[m].rw, mounts[m].init} /\ MountRests(m)
        BY <2>3 DEF MountData, RestInv
      <3>2. CASE d = mounts[m].rw
        BY <3>1, <3>2 DEF MountRests
      <3>3. CASE d = mounts[m].init
        BY <2>1, <3>1, <3>3, NeededLayers DEF MountRests
      <3> QED BY <3>1, <3>2, <3>3
    <2>4. ASSUME NEW p \in Procs, d \in CallData(p) PROVE base[d] \in driver
      <3>1. CallRests(p)
        BY DEF RestInv
      <3>2. /\ op[p].pc \in {"apply", "commit", "cleanup", "rw", "save"}
            /\ op[p].cur = <<>> \/ (op[p].cur \in layerMap /\ op[p].cur \in Chains /\ count[op[p].cur] # 0)
        BY <2>4, NoCallData, NeededLayers
      <3>3. CASE op[p].pc = "save" /\ d = op[p].new
        <4>1. base[d] \in Has(CallOwner(p)) /\ CallOwner(p) \in Owners
          BY <3>1, <3>3, HasFacts, HasMembers DEF CallRests
        <4>2. ~Vanishing(CallOwner(p))
          BY OwnersDiffer DEF Vanishing, Removes
        <4> QED BY <4>1, <4>2 DEF HeldInv, OwnersInv, Present
      <3>4. CASE base[d] = CacheOf(op[p].cur)
        BY <2>1, <3>2, <3>4
      <3> QED BY <2>4, <3>1, <3>3, <3>4 DEF CallData, CallRests
    <2>5. PICK o \in Owners : d \in Has(o)
      BY DEF RestInv, Owned
    <2> QED BY <2>2, <2>3, <2>4, <2>5, HasFacts
  <1>3. DataPresent
    BY <1>1, <1>2 DEF DataHeld, DataPresent
  <1>4. NoOrphanData
    <2>1. \A c \in Chains : LayerData(c) \subseteq Known
      BY DEF LayerData, Known
    <2>2. \A m \in Mounts : MountData(m) \subseteq Known
      BY DEF MountData, Known
    <2>3. \A p \in Procs : CallData(p) \subseteq Known
      BY DEF CallData, Known
    <2>4. \A o \in Owners : Has(o) \subseteq Known
      BY <2>1, <2>2, <2>3, HasFacts
    <2> QED BY <2>4 DEF RestInv, Owned, NoOrphanData
  <1> QED BY <1>3, <1>4

\* The driver has room for what the store can have, remember and make at once.
Roomy == MaxData > 2 * Cardinality(Chains) + 4 * Cardinality(Mounts) + 2 * Cardinality(Procs)

LEMMA ImageIsSmall ==
  ASSUME NEW S, IsFiniteSet(S), NEW f, f = [x \in S |-> f[x]], NEW T, T = {f[x] : x \in S}
  PROVE  IsFiniteSet(T) /\ Cardinality(T) \in Nat /\ Cardinality(T) <= Cardinality(S)
  <1>1. f \in [S -> T] /\ \A t \in T : \E x \in S : f[x] = t
    OBVIOUS
  <1>2. f \in Surjection(S, T)
    BY <1>1 DEF Surjection
  <1> QED BY <1>2, FS_Surjection, FS_CardinalityType

LEMMA UnionIsSmall ==
  ASSUME NEW S, NEW T, NEW m \in Nat, NEW n \in Nat, IsFiniteSet(S), IsFiniteSet(T),
         Cardinality(S) <= m, Cardinality(T) <= n
  PROVE  IsFiniteSet(S \cup T) /\ Cardinality(S \cup T) <= m + n
  <1>1. IsFiniteSet(S \cup T) /\ Cardinality(S \cup T) = Cardinality(S) + Cardinality(T) - Cardinality(S \cap T)
    BY FS_Union
  <1>2. IsFiniteSet(S \cap T)
    BY FS_Subset, S \cap T \in SUBSET S
  <1>3. Cardinality(S) \in Nat /\ Cardinality(T) \in Nat /\ Cardinality(S \cap T) \in Nat
    BY <1>2, FS_CardinalityType
  <1> QED BY <1>1, <1>3

\* A driver with room and without orphans can always make another layer.
LEMMA RoomIsLeft ==
  ASSUME StoreInv, NoOrphanData, Roomy
  PROVE  Free # {}
  <1> DEFINE c == Cardinality(Chains)
             m == Cardinality(Mounts)
             p == Cardinality(Procs)
             C1 == {cache[x] : x \in Chains}
             C2 == {meta[x].cache : x \in Chains}
             M1 == {mounts[x].rw : x \in Mounts}
             M2 == {mounts[x].init : x \in Mounts}
             M3 == {mountMeta[x].rw : x \in Mounts}
             M4 == {mountMeta[x].init : x \in Mounts}
             P1 == {op[x].new : x \in Procs}
             P2 == {op[x].init : x \in Procs}
             Used == (C1 \cup C2) \cup ((M1 \cup M2) \cup (M3 \cup M4)) \cup (P1 \cup P2)
  <1>1. c \in Nat /\ m \in Nat /\ p \in Nat
    BY FiniteAssumption, FS_CardinalityType
  <1>2. /\ IsFiniteSet(C1) /\ Cardinality(C1) <= c
        /\ IsFiniteSet(C2) /\ Cardinality(C2) <= c
    <2> DEFINE f == [x \in Chains |-> cache[x]]
               g == [x \in Chains |-> meta[x].cache]
    <2>1. C1 = {f[x] : x \in Chains} /\ C2 = {g[x] : x \in Chains}
      OBVIOUS
    <2>2. f = [x \in Chains |-> f[x]] /\ g = [x \in Chains |-> g[x]]
      OBVIOUS
    <2> HIDE DEF f, g, C1, C2
    <2> QED BY <2>1, <2>2, ImageIsSmall, FiniteAssumption
  <1>3. /\ IsFiniteSet(M1) /\ Cardinality(M1) <= m /\ IsFiniteSet(M2) /\ Cardinality(M2) <= m
        /\ IsFiniteSet(M3) /\ Cardinality(M3) <= m /\ IsFiniteSet(M4) /\ Cardinality(M4) <= m
    <2> DEFINE f == [x \in Mounts |-> mounts[x].rw]
               g == [x \in Mounts |-> mounts[x].init]
               h == [x \in Mounts |-> mountMeta[x].rw]
               i == [x \in Mounts |-> mountMeta[x].init]
    <2>1. /\ M1 = {f[x] : x \in Mounts} /\ M2 = {g[x] : x \in Mounts}
          /\ M3 = {h[x] : x \in Mounts} /\ M4 = {i[x] : x \in Mounts}
      OBVIOUS
    <2>2. /\ f = [x \in Mounts |-> f[x]] /\ g = [x \in Mounts |-> g[x]]
          /\ h = [x \in Mounts |-> h[x]] /\ i = [x \in Mounts |-> i[x]]
      OBVIOUS
    <2> HIDE DEF f, g, h, i, M1, M2, M3, M4
    <2> QED BY <2>1, <2>2, ImageIsSmall, FiniteAssumption
  <1>4. /\ IsFiniteSet(P1) /\ Cardinality(P1) <= p
        /\ IsFiniteSet(P2) /\ Cardinality(P2) <= p
    <2> DEFINE f == [x \in Procs |-> op[x].new]
               g == [x \in Procs |-> op[x].init]
    <2>1. P1 = {f[x] : x \in Procs} /\ P2 = {g[x] : x \in Procs}
      OBVIOUS
    <2>2. f = [x \in Procs |-> f[x]] /\ g = [x \in Procs |-> g[x]]
      OBVIOUS
    <2> HIDE DEF f, g, P1, P2
    <2> QED BY <2>1, <2>2, ImageIsSmall, FiniteAssumption
  <1>5. IsFiniteSet(Used) /\ Cardinality(Used) < MaxData
    <2> HIDE DEF C1, C2, M1, M2, M3, M4, P1, P2, c, m, p
    <2>1. IsFiniteSet(C1 \cup C2) /\ Cardinality(C1 \cup C2) <= c + c
      BY <1>1, <1>2, UnionIsSmall
    <2>2. /\ IsFiniteSet(M1 \cup M2) /\ Cardinality(M1 \cup M2) <= m + m
          /\ IsFiniteSet(M3 \cup M4) /\ Cardinality(M3 \cup M4) <= m + m
      BY <1>1, <1>3, UnionIsSmall
    <2>3. IsFiniteSet(P1 \cup P2) /\ Cardinality(P1 \cup P2) <= p + p
      BY <1>1, <1>4, UnionIsSmall
    <2>4. c + c \in Nat /\ m + m \in Nat /\ p + p \in Nat
          /\ (m + m) + (m + m) \in Nat /\ (c + c) + ((m + m) + (m + m)) \in Nat
      BY <1>1
    <2> DEFINE M == (M1 \cup M2) \cup (M3 \cup M4)
               CM == (C1 \cup C2) \cup M
    <2>5. IsFiniteSet(M) /\ Cardinality(M) <= (m + m) + (m + m)
      BY <2>2, <2>4, UnionIsSmall
    <2> HIDE DEF M
    <2>6. IsFiniteSet(CM) /\ Cardinality(CM) <= (c + c) + ((m + m) + (m + m))
      BY <2>1, <2>4, <2>5, UnionIsSmall
    <2> HIDE DEF CM
    <2>7. /\ IsFiniteSet(CM \cup (P1 \cup P2))
          /\ Cardinality(CM \cup (P1 \cup P2)) <= ((c + c) + ((m + m) + (m + m))) + (p + p)
      BY <2>3, <2>4, <2>6, UnionIsSmall
    <2>8. Used = CM \cup (P1 \cup P2)
      BY DEF CM, M
    <2>9. Cardinality(Used) \in Nat
      BY <2>7, <2>8, FS_CardinalityType
    <2>10. MaxData > 2 * c + 4 * m + 2 * p
      BY DEF Roomy, c, m, p
    <2> QED BY <1>1, <2>7, <2>8, <2>9, <2>10, BoundsAssumption
  <1>6. \A d \in Data : InUse(d) => d \in Used
    BY DEF InUse, StoreInv, MemoryType, NoOrphanData, Known
  <1>7. ASSUME Free = {} PROVE FALSE
    <2>1. Data \subseteq Used
      BY <1>6, <1>7 DEF Free
    <2> HIDE DEF Used
    <2>2. Cardinality(Data) <= Cardinality(Used)
      BY <1>5, <2>1, FS_Subset
    <2>3. Cardinality(Data) = MaxData
      BY FS_Interval, BoundsAssumption DEF Data
    <2>4. Cardinality(Used) \in Nat
      BY <1>5, FS_CardinalityType
    <2> QED BY <1>5, <2>2, <2>3, <2>4, BoundsAssumption
  <1> QED BY <1>7

LEMMA StoreKeepsTrack ==
  ASSUME CleanedUp, Roomy
  PROVE  Spec => [](DataPresent /\ NoOrphanData)
  <1>1. StoreInv /\ HeldInv /\ [Next]_vars => HeldInv'
    BY HeldStep DEF CleanedUp, RemovalsWork
  <1>2. StoreInv /\ HeldInv /\ RestInv => DataPresent /\ NoOrphanData
    BY RestIsPresent
  <1>3. StoreInv /\ HeldInv /\ RestInv /\ [Next]_vars => RestInv'
    BY <1>2, RoomIsLeft, RestStep
  <1> QED BY <1>1, <1>2, <1>3, HeldInit, RestInit, StoreInvariant, PTL DEF Spec

\* When nothing fails but filling a layer and committing its metadata, which
\* registerWithDescriptor undoes, no call takes the data from under a layer or a mount that
\* somebody holds, nor from under what the driver made on it (layer_store.go:294-367, 460-530).
THEOREM NothingPulledAway ==
  ASSUME CleanedUp, Roomy
  PROVE  Spec => []DataPresent
  BY StoreKeepsTrack, PTL

\* Then everything in the driver belongs to a layer, a mount or a call under way: the deferred
\* cleanup of registerWithDescriptor takes back what it made, also when another goroutine
\* registered the same layer meanwhile (layer_store.go:305-355).
THEOREM NothingForgotten ==
  ASSUME CleanedUp, Roomy
  PROVE  Spec => []NoOrphanData
  BY StoreKeepsTrack, PTL

-------------------------------------------------------------------------------
(* The store implements LayerPromise                                           *)

\* Places of a call that deletes a layer or a mount.
DeletingPcs == {"rmdata", "rmmeta"}
DeletingRWPcs == {"rmrw", "rminit", "rmmount"}

\* Who deletes has the lock, so one layer and one mount are deleted at a time.
LEMMA WhoDeletes ==
  ASSUME StoreInv
  PROVE  /\ \A c \in LeavingLayers : c \in layerMap /\ c \in Chains /\ count[c] = 0
         /\ layerL = NoProc => LeavingLayers = {}
         /\ mountL = NoProc => LeavingMounts = {}
         /\ \A m \in LeavingMounts : mounts[m].in
         /\ \A p \in Procs : op[p].pc \in DeletingPcs => LeavingLayers = {op[p].cur}
         /\ \A p \in Procs : op[p].pc \in DeletingRWPcs => LeavingMounts = {Mount(p)}
  <1> USE DEF StoreInv, DeletingPcs, DeletingRWPcs
  <1>1. \A p \in Procs : op[p].pc \in DeletingPcs =>
          layerL = p /\ op[p].cur \in layerMap /\ op[p].cur \in Chains /\ count[op[p].cur] = 0
    BY DEF CallsOK, CallOK
  <1>2. \A p \in Procs : op[p].pc \in DeletingRWPcs =>
          mountL = p /\ op[p].m = {Mount(p)} /\ Mount(p) \in Mounts /\ mounts[Mount(p)].in
    BY MountFacts
  <1>3. NoProc \notin Procs
    BY ProcsAssumption
  <1>4. \A c \in LeavingLayers : c \in layerMap /\ c \in Chains /\ count[c] = 0
    BY <1>1 DEF LeavingLayers
  <1>5. layerL = NoProc => LeavingLayers = {}
    BY <1>1, <1>3 DEF LeavingLayers
  <1>6. mountL = NoProc => LeavingMounts = {}
    BY <1>2, <1>3 DEF LeavingMounts
  <1>7. ASSUME NEW m \in LeavingMounts PROVE mounts[m].in
    <2>1. PICK p \in Procs : op[p].m = {m} /\ op[p].pc \in DeletingRWPcs
      BY <1>7 DEF LeavingMounts
    <2>2. m = Mount(p)
      BY <1>2, <2>1
    <2> QED BY <1>2, <2>1, <2>2
  <1>8. ASSUME NEW p \in Procs, op[p].pc \in DeletingPcs PROVE LeavingLayers = {op[p].cur}
    BY <1>1, <1>8 DEF LeavingLayers
  <1>9. ASSUME NEW p \in Procs, op[p].pc \in DeletingRWPcs PROVE LeavingMounts = {Mount(p)}
    <2>1. ASSUME NEW m \in LeavingMounts PROVE m = Mount(p)
      <3>1. PICK q \in Procs : op[q].m = {m} /\ op[q].pc \in DeletingRWPcs
        BY <2>1 DEF LeavingMounts
      <3>2. q = p
        BY <1>2, <1>9, <3>1
      <3> QED BY <1>2, <1>9, <3>1, <3>2
    <2>2. Mount(p) \in LeavingMounts
      BY <1>2, <1>9 DEF LeavingMounts
    <2> QED BY <2>1, <2>2
  <1> QED BY <1>4, <1>5, <1>6, <1>7, <1>8, <1>9

\* The same after a step.
DeletesOne ==
  \A p \in Procs : /\ op[p].pc \in DeletingPcs => LeavingLayers = {op[p].cur}
                   /\ op[p].pc \in DeletingRWPcs => LeavingMounts = {Mount(p)}

LEMMA WhoDeletesNext == StoreInv' => DeletesOne'
  <1>1. StoreInv => DeletesOne
    BY WhoDeletes DEF DeletesOne
  <1> QED BY <1>1, PTL

\* A call that deletes nothing goes on and deletes nothing.
LEMMA NoDeletionStarts ==
  ASSUME NEW p \in Procs, \A q \in Procs : q # p => op'[q] = op[q],
         op[p].pc \notin DeletingPcs, op'[p].pc \notin DeletingPcs, UNCHANGED layerMap
  PROVE  LeavingLayers' = LeavingLayers
  <1>1. ASSUME NEW c
        PROVE  (\E q \in Procs : op'[q].cur = c /\ op'[q].pc \in DeletingPcs)
                 <=> (\E q \in Procs : op[q].cur = c /\ op[q].pc \in DeletingPcs)
    OBVIOUS
  <1> QED BY <1>1 DEF LeavingLayers, DeletingPcs

LEMMA NoDeletionRWStarts ==
  ASSUME NEW p \in Procs, \A q \in Procs : q # p => op'[q] = op[q],
         op[p].pc \notin DeletingRWPcs, op'[p].pc \notin DeletingRWPcs
  PROVE  LeavingMounts' = LeavingMounts
  <1>1. ASSUME NEW m
        PROVE  (\E q \in Procs : op'[q].m = {m} /\ op'[q].pc \in DeletingRWPcs)
                 <=> (\E q \in Procs : op[q].m = {m} /\ op[q].pc \in DeletingRWPcs)
    OBVIOUS
  <1> QED BY <1>1 DEF LeavingMounts, DeletingRWPcs

\* The writable layers, one by one, and when the holders of one change.
LEMMA WritableIs ==
  ASSUME NEW m \in Mounts
  PROVE  Writable[m].in = mounts[m].in /\ Writable[m].on = mounts[m].parent /\ Writable[m].users = mounts[m].refs
  BY DEF Writable

LEMMA OtherUsers ==
  ASSUME MountsType, NEW m \in Mounts, NEW R, mounts' = [mounts EXCEPT ![m].refs = R]
  PROVE  Writable' = [Writable EXCEPT ![m].users = R]
  <1>1. /\ \A n \in Mounts : n # m => mounts'[n] = mounts[n]
        /\ mounts'[m].in = mounts[m].in /\ mounts'[m].parent = mounts[m].parent /\ mounts'[m].refs = R
    BY DEF MountsType
  <1> QED BY <1>1 DEF Writable

\* A step that changes nothing LayerPromise sees.
LEMMA NothingSeen ==
  ASSUME UNCHANGED <<layerMap, parent, refs, mounts>>, LeavingLayers' = LeavingLayers,
         LeavingMounts' = LeavingMounts, Damaged' = Damaged
  PROVE  Abs!Nothing
  <1>1. Writable' = Writable
    BY DEF Writable
  <1> QED BY <1>1 DEF Abs!Nothing, Abs!avars

\* What is wrong on the disk depends on the disk and the memory.
LEMMA SameDamage ==
  ASSUME UNCHANGED <<layerMap, cache, parent, disk>>,
         \A m \in Mounts : /\ mounts'[m].in = mounts[m].in /\ mounts'[m].parent = mounts[m].parent
                           /\ mounts'[m].rw = mounts[m].rw /\ mounts'[m].init = mounts[m].init
  PROVE  Damaged' = Damaged
  <1>1. \A c : Written(c)' <=> Written(c)
    BY DEF Written, disk
  <1>2. \A m \in Mounts : MountWritten(m)' <=> MountWritten(m)
    BY DEF MountWritten, disk
  <1>3. DiskMatches' <=> DiskMatches
    BY <1>1, <1>2 DEF DiskMatches
  <1>4. NothingElse' <=> NothingElse
    BY DEF NothingElse, disk
  <1> QED BY <1>3, <1>4 DEF Damaged

\* A step of a call that LayerPromise does not see.
LEMMA QuietCall ==
  ASSUME NEW p \in Procs, \A q \in Procs : q # p => op'[q] = op[q],
         op[p].pc \notin DeletingPcs \cup DeletingRWPcs, op'[p].pc \notin DeletingPcs \cup DeletingRWPcs,
         UNCHANGED <<layerMap, cache, parent, refs, mounts, disk>>
  PROVE  Abs!Nothing
  <1>1. LeavingLayers' = LeavingLayers
    BY NoDeletionStarts
  <1>2. LeavingMounts' = LeavingMounts
    BY NoDeletionRWStarts
  <1>3. Damaged' = Damaged
    BY SameDamage
  <1> QED BY <1>1, <1>2, <1>3, NothingSeen

\* A call starts: it gets, releases or looks up a layer.
LEMMA EnterPromised ==
  ASSUME StoreInv, NEW p \in Procs, NEW c \in Chains,
         Get(p, c) \/ Release(p, c) \/ Register(p, c) \/ \E m \in Mounts : CreateRWLayer(p, m, c)
  PROVE  \/ Abs!Nothing
         \/ (Abs!Get(p, c) \/ Abs!Release(p, c)) /\ Damaged' = Damaged
  <1>1. /\ op[p].pc = "idle" /\ op'[p].pc \in {"idle", "dec", "create", "init"}
        /\ \A q \in Procs : q # p => op'[q] = op[q]
        /\ UNCHANGED <<layerMap, cache, parent, mounts>>
    BY EnterFacts
  <1>2. UNCHANGED disk
    BY DEF Get, Release, Register, CreateRWLayer
  <1>3. LeavingLayers' = LeavingLayers
    BY <1>1, NoDeletionStarts DEF DeletingPcs
  <1>4. LeavingMounts' = LeavingMounts
    BY <1>1, NoDeletionRWStarts DEF DeletingRWPcs
  <1>5. Damaged' = Damaged
    BY <1>1, <1>2, SameDamage
  <1>6. UNCHANGED <<Abs!layers, Abs!rwLayers>>
    BY <1>1, <1>3, <1>4 DEF Abs!layers, Abs!rwLayers, Writable
  <1>7. CASE Get(p, c)
    <2>1. /\ layerL = NoProc /\ c \in layerMap /\ p \notin refs[c]
          /\ refs' = [refs EXCEPT ![c] = @ \cup {p}]
      BY <1>7 DEF Get
    <2>2. c \in Abs!Usable
      BY <2>1, WhoDeletes DEF Abs!Usable
    <2> QED BY <1>5, <1>6, <2>1, <2>2 DEF Abs!Get
  <1>8. CASE Release(p, c)
    BY <1>5, <1>6, <1>8 DEF Release, Abs!Release
  <1>9. CASE UNCHANGED refs
    BY <1>1, <1>3, <1>4, <1>5, <1>9, NothingSeen
  <1> QED BY <1>7, <1>8, <1>9 DEF Register, CreateRWLayer

\* A mount is handed out, or taken back; its last holder begins to delete it.
LEMMA EnterMountPromised ==
  ASSUME StoreInv, NEW p \in Procs, NEW m \in Mounts, GetRWLayer(p, m) \/ ReleaseRWLayer(p, m)
  PROVE  (Abs!GetRW(p, m) \/ Abs!ReleaseRW(p, m)) /\ Damaged' = Damaged
  <1> USE DEF StoreInv
  <1>1. /\ op[p].pc = "idle" /\ mountL = NoProc
        /\ op'[p].pc = "idle" \/ (op'[p].pc = "rmrw" /\ op'[p].m = {m} /\ mounts'[m].refs = {})
        /\ \A q \in Procs : q # p => op'[q] = op[q]
        /\ UNCHANGED <<layerMap, cache, parent>>
        /\ \A n \in Mounts : /\ mounts'[n].in = mounts[n].in /\ mounts'[n].parent = mounts[n].parent
                              /\ mounts'[n].rw = mounts[n].rw /\ mounts'[n].init = mounts[n].init
    BY EnterMountFacts
  <1>2. UNCHANGED <<disk, refs>>
    BY DEF GetRWLayer, ReleaseRWLayer, memory
  <1>3. LeavingLayers' = LeavingLayers
    BY <1>1, NoDeletionStarts DEF DeletingPcs
  <1>4. Damaged' = Damaged
    BY <1>1, <1>2, SameDamage
  <1>5. UNCHANGED <<Abs!layers, refs>>
    BY <1>1, <1>2, <1>3 DEF Abs!layers
  <1>6. LeavingMounts = {}
    BY <1>1, WhoDeletes
  <1>7. CASE GetRWLayer(p, m)
    <2>1. op' = op /\ mounts[m].in /\ p \notin mounts[m].refs
          /\ mounts' = [mounts EXCEPT ![m].refs = @ \cup {p}]
      BY <1>7 DEF GetRWLayer
    <2>2. LeavingMounts' = LeavingMounts
      BY <2>1 DEF LeavingMounts
    <2>3. Writable' = [Writable EXCEPT ![m].users = mounts[m].refs \cup {p}]
      BY <2>1, OtherUsers
    <2> QED BY <1>4, <1>5, <1>6, <2>1, <2>2, <2>3, WritableIs DEF Abs!GetRW
  <1>8. CASE ReleaseRWLayer(p, m)
    <2>1. p \in mounts[m].refs /\ mounts' = [mounts EXCEPT ![m].refs = mounts[m].refs \ {p}]
      BY <1>8 DEF ReleaseRWLayer
    <2>2. LeavingMounts' = IF mounts[m].refs = {p} THEN {m} ELSE {}
      <3>1. CASE mounts[m].refs # {p}
        BY <1>6, <1>8, <3>1 DEF LeavingMounts, ReleaseRWLayer
      <3>2. CASE mounts[m].refs = {p}
        <4>1. op' = [op EXCEPT ![p].pc = "rmrw", ![p].m = {m}]
          BY <1>8, <3>2 DEF ReleaseRWLayer
        <4>2. op'[p].pc = "rmrw" /\ op'[p].m = {m}
          BY <4>1 DEF CallsType, Calls
        <4>3. \A q \in Procs : q # p => op[q].pc \notin {"rmrw", "rminit", "rmmount"}
          BY <1>1, NoDeletion
        <4>4. \A q \in Procs : op'[q].pc \in {"rmrw", "rminit", "rmmount"} => q = p
          BY <1>1, <4>3
        <4> QED BY <3>2, <4>2, <4>4 DEF LeavingMounts
      <3> QED BY <3>1, <3>2
    <2>3. Writable' = [Writable EXCEPT ![m].users = mounts[m].refs \ {p}]
      BY <2>1, OtherUsers
    <2> QED BY <1>4, <1>5, <1>6, <2>1, <2>2, <2>3, WritableIs DEF Abs!ReleaseRW
  <1> QED BY <1>7, <1>8

\* Who gives up a lock was the one to delete.
LEMMA ReturnUnlocks ==
  ASSUME StoreInv, NEW p \in Procs, op'[p].pc \notin DeletingPcs \cup DeletingRWPcs,
         \A q \in Procs : q # p => op'[q] = op[q]
  PROVE  /\ op[p].pc \in DeletingPcs => LeavingLayers' = {}
         /\ op[p].pc \in DeletingRWPcs => LeavingMounts' = {}
  <1> USE DEF StoreInv, DeletingPcs, DeletingRWPcs
  <1>1. ASSUME op[p].pc \in DeletingPcs, NEW q \in Procs PROVE op'[q].pc \notin DeletingPcs
    BY <1>1 DEF CallsOK, CallOK
  <1>2. ASSUME op[p].pc \in DeletingRWPcs, NEW q \in Procs PROVE op'[q].pc \notin DeletingRWPcs
    BY <1>2, MountFacts
  <1> QED BY <1>1, <1>2 DEF LeavingLayers, LeavingMounts

-------------------------------------------------------------------------------
(* A layer is released and deleted                                             *)

\* Nobody needs a layer that no one has retained.
LEMMA NotNeeded ==
  ASSUME StoreInv, NEW c \in Chains, count[c] = 0
  PROVE  ~Abs!Needed(c)
  <1>1. refs[c] = {} /\ Children(c) = {} /\ MountsOn(c) = {}
    BY CountFacts DEF StoreInv
  <1>2. ~\E d \in layerMap : parent[d] = c
    BY <1>1 DEF Children
  <1>3. ~\E m \in Mounts : Writable[m].in /\ Writable[m].on = c
    BY <1>1, WritableIs DEF MountsOn
  <1> QED BY <1>1, <1>2, <1>3 DEF Abs!Needed

NoneNeeded == \A c \in Chains : count[c] = 0 => ~Abs!Needed(c)

LEMMA NotNeededNext == StoreInv' => NoneNeeded'
  <1>1. StoreInv => NoneNeeded
    BY NotNeeded DEF NoneNeeded
  <1> QED BY <1>1, PTL

\* A layer that somebody has retained is not being deleted.
LEMMA RetainedIsUsable ==
  ASSUME StoreInv, NEW c \in Chains, count[c] # 0
  PROVE  c \in Abs!Usable
  <1>1. c \in layerMap
    BY CountFacts DEF StoreInv
  <1>2. c \notin LeavingLayers
    BY WhoDeletes
  <1> QED BY <1>1, <1>2 DEF Abs!Usable

LEMMA DecPromised ==
  ASSUME StoreInv, StoreInv', NEW p \in Procs, Dec(p)
  PROVE  Abs!Nothing \/ ((\E c \in Chains : Abs!Delete(c)) /\ Damaged' = Damaged)
  <1>1. /\ op[p].pc = "dec" /\ op'[p].pc \in {"dec", "idle", "rmdata"}
        /\ \A q \in Procs : q # p => op'[q] = op[q]
        /\ UNCHANGED <<layerMap, cache, parent, mounts>>
    BY DecFacts
  <1>2. UNCHANGED <<refs, disk>>
    BY DEF Dec
  <1>3. CASE op'[p].pc # "rmdata"
    <2>1. op[p].pc \notin DeletingPcs \cup DeletingRWPcs /\ op'[p].pc \notin DeletingPcs \cup DeletingRWPcs
      BY <1>1, <1>3 DEF DeletingPcs, DeletingRWPcs
    <2> QED BY <1>1, <1>2, <2>1, QuietCall
  <1>4. CASE op'[p].pc = "rmdata"
    <2>1. /\ Goto(p, "rmdata") /\ layerL \in {NoProc, p}
          /\ count[op[p].cur] = 1
      <3>1. Return(p) => op'[p].pc = "idle"
        BY ReturnFacts, IdleFacts, NewCall DEF StoreInv
      <3>2. op' = op => op'[p].pc = "dec"
        BY <1>1
      <3> QED BY <1>4, <3>1, <3>2 DEF Dec
    <2>2. PICK c \in Chains : c = op[p].cur /\ c = op'[p].cur
      <3>1. PICK o \in Calls : op' = [op EXCEPT ![p] = o] /\ o.cur = op[p].cur
        BY <2>1, GotoFacts DEF StoreInv
      <3>2. op[p].cur \in Chains
        BY <1>1 DEF StoreInv, CallsOK, CallOK
      <3> QED BY <3>1, <3>2, NewCall DEF StoreInv
    <2>3. LeavingLayers' = {c}
      BY <1>4, <2>2, WhoDeletesNext DEF DeletingPcs, DeletesOne
    <2>4. LeavingLayers = {}
      <3>1. ASSUME NEW q \in Procs, op[q].pc \in DeletingPcs PROVE FALSE
        BY <1>1, <2>1, <3>1, ProcsAssumption DEF StoreInv, CallsOK, CallOK, DeletingPcs
      <3> QED BY <3>1 DEF LeavingLayers, DeletingPcs
    <2>5. LeavingMounts' = LeavingMounts
      BY <1>1, NoDeletionRWStarts DEF DeletingRWPcs
    <2>6. Damaged' = Damaged
      BY <1>1, <1>2, SameDamage
    <2>7. Writable' = Writable
      BY <1>1 DEF Writable
    <2>8. ~Abs!Needed(c)
      <3>1. count'[c] = 0
        BY <1>4, <2>2 DEF StoreInv, CallsOK, CallOK
      <3> QED BY <1>1, <1>2, <2>7, <3>1, NotNeededNext DEF Abs!Needed, NoneNeeded
    <2>9. c \in Abs!Usable
      BY <2>1, <2>2, RetainedIsUsable
    <2> QED BY <1>1, <1>2, <2>3, <2>4, <2>5, <2>6, <2>7, <2>8, <2>9 DEF Abs!Delete, Abs!rwLayers
  <1> QED BY <1>3, <1>4

\* The data of the layer goes first, and with an error nothing has.
LEMMA RemoveDataPromised ==
  ASSUME StoreInv, StoreInv', NEW p \in Procs, RemoveData(p)
  PROVE  Abs!Nothing \/ ((\E c \in Chains : Abs!DeleteFails(c)) /\ Damaged' = Damaged)
  <1>1. op[p].pc = "rmdata" /\ UNCHANGED <<layerMap, cache, parent, refs, mounts, disk>>
    BY DEF RemoveData, memory, At
  <1>2. PICK c \in Chains : c = op[p].cur /\ LeavingLayers = {c}
    BY <1>1, WhoDeletes DEF StoreInv, DeletingPcs, CallsOK, CallOK
  <1>3. Damaged' = Damaged
    BY <1>1, SameDamage
  <1>4. CASE Goto(p, "rmmeta")
    <2>1. PICK o \in Calls : op' = [op EXCEPT ![p] = o] /\ o.pc = "rmmeta" /\ o.cur = op[p].cur
      BY <1>4, GotoFacts DEF StoreInv
    <2>2. op'[p].pc = "rmmeta" /\ op'[p].cur = c /\ \A q \in Procs : q # p => op'[q] = op[q]
      BY <1>2, <2>1, NewCall DEF StoreInv
    <2>3. LeavingLayers' = LeavingLayers
      BY <1>2, <2>2, WhoDeletesNext DEF DeletingPcs, DeletesOne
    <2>4. LeavingMounts' = LeavingMounts
      BY <1>1, <2>2, NoDeletionRWStarts DEF DeletingRWPcs
    <2> QED BY <1>1, <1>3, <2>3, <2>4, NothingSeen
  <1>5. CASE Return(p)
    <2>1. op'[p].pc = "idle" /\ \A q \in Procs : q # p => op'[q] = op[q]
      BY <1>5, ReturnFacts, IdleFacts, NewCall DEF StoreInv
    <2>2. LeavingLayers' = {}
      BY <1>1, <2>1, ReturnUnlocks DEF DeletingPcs, DeletingRWPcs
    <2>3. LeavingMounts' = LeavingMounts
      BY <1>1, <2>1, NoDeletionRWStarts DEF DeletingRWPcs
    <2>4. Writable' = Writable
      BY <1>1 DEF Writable
    <2> QED BY <1>1, <1>2, <1>3, <2>2, <2>3, <2>4 DEF Abs!DeleteFails, Abs!rwLayers
  <1> QED BY <1>4, <1>5 DEF RemoveData

\* The metadata goes next and the layer is gone; or an error leaves it, maybe without files.
LEMMA RemoveMetaPromised ==
  ASSUME StoreInv, NEW p \in Procs, RemoveMeta(p)
  PROVE  \E c \in Chains : \/ Abs!Gone(c) /\ (Damaged' => Damaged)
                           \/ Abs!DeleteFails(c)
  <1>1. op[p].pc = "rmmeta" /\ UNCHANGED <<refs, mounts, mountMeta>>
    BY DEF RemoveMeta, At
  <1>2. PICK c \in Chains : c = op[p].cur /\ LeavingLayers = {c} /\ c \in layerMap
    BY <1>1, WhoDeletes DEF StoreInv, DeletingPcs, CallsOK, CallOK
  <1>3. op'[p].pc \in {"idle", "dec"} /\ \A q \in Procs : q # p => op'[q] = op[q]
    <2>1. Return(p) => op'[p].pc = "idle" /\ \A q \in Procs : q # p => op'[q] = op[q]
      BY ReturnFacts, IdleFacts, NewCall DEF StoreInv
    <2>2. ASSUME parent[c] # <<>>, op' = [op EXCEPT ![p].pc = "dec", ![p].cur = parent[c]]
          PROVE  op'[p].pc = "dec" /\ \A q \in Procs : q # p => op'[q] = op[q]
      <3>1. parent[c] \in Bases
        BY DEF StoreInv, MemoryType
      <3>2. PICK o \in Calls : op' = [op EXCEPT ![p] = o] /\ o.pc = "dec"
        BY <2>2, <3>1, GotoRelease DEF StoreInv
      <3> QED BY <3>2, NewCall DEF StoreInv
    <2> QED BY <1>2, <2>1, <2>2 DEF RemoveMeta
  <1>4. LeavingLayers' = {}
    BY <1>1, <1>3, ReturnUnlocks DEF DeletingPcs, DeletingRWPcs
  <1>5. LeavingMounts' = LeavingMounts
    BY <1>1, <1>3, NoDeletionRWStarts DEF DeletingRWPcs
  <1>6. UNCHANGED <<refs, Abs!rwLayers>>
    BY <1>1, <1>5 DEF Writable, Abs!rwLayers
  <1>7. CASE UNCHANGED <<layerMap, parent>>
    BY <1>2, <1>4, <1>6, <1>7 DEF Abs!DeleteFails
  <1>8. CASE /\ meta' = [meta EXCEPT ![c] = NoMeta] /\ layerMap' = layerMap \ {c}
             /\ cache' = [cache EXCEPT ![c] = 0] /\ parent' = [parent EXCEPT ![c] = <<>>]
    <2>1. Damaged' => Damaged
      BY <1>1, <1>8, LayerGoes DEF Damaged
    <2> QED BY <1>2, <1>4, <1>6, <1>8, <2>1 DEF Abs!Gone
  <1> QED BY <1>2, <1>7, <1>8 DEF RemoveMeta

-------------------------------------------------------------------------------
(* A layer is registered                                                       *)

\* What a registration does before and after it enters the map, and making the driver's
\* layers of a mount.
LEMMA MakingPromised ==
  ASSUME StoreInv, NEW p \in Procs,
         \/ RegisterCreate(p) \/ RegisterApply(p) \/ RegisterCleanup(p)
         \/ InitMount(p) \/ CreateReadWrite(p)
  PROVE  Abs!Nothing
  <1>1. /\ op[p].pc \in {"create", "apply", "cleanup", "init", "rw"}
        /\ UNCHANGED <<layerMap, cache, parent, refs, mounts, disk>>
    BY DEF RegisterCreate, RegisterApply, RegisterCleanup, InitMount, CreateReadWrite, At, memory
  <1>2. ASSUME NEW o \in Calls, op' = [op EXCEPT ![p] = o], o.pc \in {"apply", "commit", "cleanup", "rw", "save"}
        PROVE  /\ op'[p].pc \in {"apply", "commit", "cleanup", "rw", "save"}
               /\ \A q \in Procs : q # p => op'[q] = op[q]
    BY <1>2, NewCall DEF StoreInv
  <1>3. Fail(p) => op'[p].pc \in {"idle", "dec"} /\ \A q \in Procs : q # p => op'[q] = op[q]
    BY FailGivesUp DEF StoreInv
  <1>4. ASSUME NEW pc \in {"commit", "cleanup"}, Goto(p, pc)
        PROVE  op'[p].pc = pc /\ \A q \in Procs : q # p => op'[q] = op[q]
    <2>1. PICK o \in Calls : op' = [op EXCEPT ![p] = o] /\ o.pc = pc
      BY <1>4, GotoFacts DEF StoreInv
    <2> QED BY <2>1, NewCall DEF StoreInv
  <1>5. /\ op'[p].pc \in {"idle", "dec", "apply", "commit", "cleanup", "rw", "save"}
        /\ \A q \in Procs : q # p => op'[q] = op[q]
    <2>1. CASE RegisterCreate(p)
      BY <2>1, <1>2, <1>3, RegisterCreateFacts
    <2>2. CASE InitMount(p)
      BY <2>2, <1>2, <1>3, InitMountFacts
    <2>3. CASE CreateReadWrite(p)
      BY <2>3, <1>2, <1>3, CreateReadWriteFacts
    <2>4. CASE RegisterApply(p)
      BY <2>4, <1>3, <1>4 DEF RegisterApply
    <2>5. CASE RegisterCleanup(p)
      BY <2>5, <1>3 DEF RegisterCleanup
    <2> QED BY <2>1, <2>2, <2>3, <2>4, <2>5
  <1>6. op[p].pc \notin DeletingPcs \cup DeletingRWPcs /\ op'[p].pc \notin DeletingPcs \cup DeletingRWPcs
    BY <1>1, <1>5 DEF DeletingPcs, DeletingRWPcs
  <1> QED BY <1>1, <1>5, <1>6, QuietCall

\* It enters the map with its metadata in place, or finds that somebody else was first, or fails.
LEMMA CommitPromised ==
  ASSUME StoreInv, NEW p \in Procs, RegisterCommit(p)
  PROVE  \/ Abs!Nothing
         \/ (\E c \in Chains : Abs!Get(p, c) \/ Abs!Register(p, c)) /\ (Damaged' => Damaged)
  <1>1. PICK c \in Chains : c = op[p].l /\ op[p].cur = Front(c) /\ p \notin refs[c]
    BY DEF StoreInv, CallsOK, CallOK, RegisterCommit, At
  <1>2. op[p].pc = "commit" /\ layerL = NoProc /\ UNCHANGED <<mounts, mountMeta>>
    BY DEF RegisterCommit, At
  <1>3. op'[p].pc \in {"idle", "cleanup"} /\ \A q \in Procs : q # p => op'[q] = op[q]
    <2>1. Return(p) => op'[p].pc = "idle" /\ \A q \in Procs : q # p => op'[q] = op[q]
      BY ReturnFacts, IdleFacts, NewCall DEF StoreInv
    <2>2. ASSUME Goto(p, "cleanup") PROVE op'[p].pc = "cleanup" /\ \A q \in Procs : q # p => op'[q] = op[q]
      <3>1. PICK o \in Calls : op' = [op EXCEPT ![p] = o] /\ o.pc = "cleanup"
        BY <2>2, GotoFacts DEF StoreInv
      <3> QED BY <3>1, NewCall DEF StoreInv
    <2> QED BY <2>1, <2>2 DEF RegisterCommit
  <1>4. LeavingLayers = {} /\ LeavingLayers' = {}
    <2>1. LeavingLayers = {}
      BY <1>2, WhoDeletes
    <2>2. ASSUME NEW q \in Procs PROVE op'[q].pc \notin DeletingPcs
      BY <1>2, <1>3, ProcsAssumption DEF StoreInv, CallsOK, CallOK, DeletingPcs
    <2> QED BY <2>1, <2>2 DEF LeavingLayers, DeletingPcs
  <1>5. LeavingMounts' = LeavingMounts
    BY <1>2, <1>3, NoDeletionRWStarts DEF DeletingRWPcs
  <1>6. UNCHANGED Abs!rwLayers
    BY <1>2, <1>5 DEF Writable, Abs!rwLayers
  <1>7. CASE UNCHANGED <<layerMap, refs, cache, parent, meta>>
    <2>1. op[p].pc \notin DeletingPcs \cup DeletingRWPcs /\ op'[p].pc \notin DeletingPcs \cup DeletingRWPcs
      BY <1>2, <1>3 DEF DeletingPcs, DeletingRWPcs
    <2>2. UNCHANGED <<layerMap, cache, parent, refs, mounts, disk>>
      BY <1>2, <1>7 DEF disk
    <2> QED BY <1>3, <2>1, <2>2, QuietCall
  <1>8. CASE /\ c \in layerMap /\ refs' = [refs EXCEPT ![c] = @ \cup {p}]
             /\ UNCHANGED <<layerMap, cache, parent, meta>>
    <2>1. Damaged' = Damaged
      BY <1>2, <1>8, SameDamage DEF disk
    <2>2. c \in Abs!Usable
      BY <1>4, <1>8 DEF Abs!Usable
    <2> QED BY <1>1, <1>4, <1>6, <1>8, <2>1, <2>2 DEF Abs!Get, Abs!layers
  <1>9. CASE /\ c \notin layerMap /\ layerMap' = layerMap \cup {c} /\ refs' = [refs EXCEPT ![c] = {p}]
             /\ parent' = [parent EXCEPT ![c] = op[p].cur]
             /\ meta' = [meta EXCEPT ![c] = [state |-> "full", cache |-> op[p].new, parent |-> op[p].cur]]
    <2>1. Damaged' => Damaged
      <3>1. DiskMatches => DiskMatches'
        BY CommitWrites
      <3>2. ASSUME NothingElse PROVE NothingElse'
        <4>1. ASSUME NEW d \in Chains, d \notin layerMap' PROVE meta'[d].state # "full"
          <5>1. d # c /\ d \notin layerMap
            BY <1>9, <4>1
          <5>2. meta'[d] = meta[d]
            BY <1>9, <5>1 DEF StoreInv, DiskType
          <5> QED BY <3>2, <5>1, <5>2 DEF NothingElse
        <4> QED BY <4>1 DEF NothingElse
      <3> QED BY <3>1, <3>2 DEF Damaged
    <2>2. Front(c) \in Abs!Usable \cup {<<>>}
      <3>1. CASE Front(c) # <<>>
        <4>1. Front(c) \in Chains /\ count[Front(c)] # 0
          BY <1>1, <1>2, <3>1, NeededLayers
        <4> QED BY <4>1, RetainedIsUsable
      <3> QED BY <3>1
    <2>3. Abs!Front(c) = Front(c)
      BY DEF Abs!Front, Front
    <2>4. parent' = [parent EXCEPT ![c] = Front(c)]
      BY <1>1, <1>9
    <2>5. Abs!Register(p, c)
      BY <1>4, <1>6, <1>9, <2>2, <2>3, <2>4 DEF Abs!Register
    <2> QED BY <2>1, <2>5
  <1> QED BY <1>1, <1>7, <1>8, <1>9 DEF RegisterCommit

-------------------------------------------------------------------------------
(* A mount is made and deleted                                                 *)

\* What was written of a mount that is not there is not wrong.
LEMMA SaveDamages ==
  ASSUME StoreInv, NEW p \in Procs, SaveMount(p), UNCHANGED mounts
  PROVE  Damaged' = Damaged
  <1>1. PICK m \in Mounts : m = Mount(p) /\ ~mounts[m].in
    BY MountFacts DEF StoreInv, SaveMount, At
  <1>2. PICK f : mountMeta' = [mountMeta EXCEPT ![m] = f]
    BY <1>1 DEF SaveMount
  <1>3. UNCHANGED <<layerMap, cache, parent, meta>>
    BY DEF SaveMount, memory
  <1>4. \A n \in Mounts : mounts[n].in => mountMeta'[n] = mountMeta[n]
    BY <1>1, <1>2 DEF StoreInv, DiskType
  <1>5. DiskMatches' <=> DiskMatches
    <2>1. \A c : Written(c)' <=> Written(c)
      BY <1>3 DEF Written
    <2>2. \A n \in Mounts : mounts[n].in => (MountWritten(n)' <=> MountWritten(n))
      BY <1>4 DEF MountWritten
    <2> QED BY <1>3, <2>1, <2>2 DEF DiskMatches
  <1>6. NothingElse' <=> NothingElse
    BY <1>3 DEF NothingElse
  <1> QED BY <1>5, <1>6 DEF Damaged

LEMMA SavePromised ==
  ASSUME StoreInv, NEW p \in Procs, SaveMount(p)
  PROVE  \/ Abs!Nothing
         \/ (\E m \in Mounts, c \in Chains : Abs!CreateRW(p, m, c)) /\ (Damaged' => Damaged)
  <1>1. PICK m \in Mounts : m = Mount(p) /\ ~mounts[m].in
    BY MountFacts DEF StoreInv, SaveMount, At
  <1>2. op[p].pc = "save" /\ UNCHANGED <<layerMap, cache, parent, refs, meta>>
    BY DEF SaveMount, At, memory
  <1>3. PICK c \in Chains : c = op[p].cur
    BY <1>2 DEF StoreInv, CallsOK, CallOK
  <1>4. op'[p].pc \in {"idle", "dec"} /\ \A q \in Procs : q # p => op'[q] = op[q]
    <2>1. Return(p) => op'[p].pc = "idle" /\ \A q \in Procs : q # p => op'[q] = op[q]
      BY ReturnFacts, IdleFacts, NewCall DEF StoreInv
    <2> QED BY <2>1, FailGivesUp DEF StoreInv, SaveMount
  <1>5. LeavingLayers' = LeavingLayers
    BY <1>2, <1>4, NoDeletionStarts DEF DeletingPcs
  <1>6. LeavingMounts' = LeavingMounts
    BY <1>2, <1>4, NoDeletionRWStarts DEF DeletingRWPcs
  <1>7. CASE mounts' = mounts
    BY <1>2, <1>5, <1>6, <1>7, SaveDamages, NothingSeen
  <1>8. CASE mounts' = [mounts EXCEPT ![m] = [in |-> TRUE, parent |-> op[p].cur, rw |-> op[p].new,
                                             init |-> op[p].init, refs |-> {p}]]
    <2>1. Damaged' => Damaged
      <3>1. DiskMatches => DiskMatches'
        BY SaveWrites
      <3>2. NothingElse' <=> NothingElse
        BY <1>2 DEF NothingElse
      <3> QED BY <3>1, <3>2 DEF Damaged
    <2>2. PICK r : /\ r = [in |-> TRUE, parent |-> op[p].cur, rw |-> op[p].new,
                           init |-> op[p].init, refs |-> {p}]
                   /\ mounts' = [mounts EXCEPT ![m] = r]
      BY <1>8
    <2>3. r.in = TRUE /\ r.parent = c /\ r.refs = {p}
      BY <1>3, <2>2
    <2>4. mounts'[m] = r /\ \A n \in Mounts : n # m => mounts'[n] = mounts[n]
      BY <2>2 DEF StoreInv, MountsType
    <2>5. Writable' = [Writable EXCEPT ![m] = [in |-> TRUE, on |-> c, users |-> {p}]]
      BY <2>3, <2>4 DEF Writable
    <2>6. ~Writable[m].in
      BY <1>1, WritableIs
    <2>7. c \in Abs!Usable
      <3>1. count[c] # 0
        BY <1>2, <1>3, NeededLayers, ChainFacts
      <3> QED BY <3>1, RetainedIsUsable
    <2> QED BY <1>2, <1>5, <1>6, <2>1, <2>5, <2>6, <2>7 DEF Abs!CreateRW, Abs!layers
  <1> QED BY <1>1, <1>7, <1>8 DEF SaveMount

\* A removal that fails gives the mount back to the one that called it.
LEMMA RetakePromised ==
  ASSUME StoreInv, NEW p \in Procs, op[p].pc \in DeletingRWPcs, Retake(p),
         UNCHANGED <<layerMap, parent, refs>>
  PROVE  \E m \in Mounts : Abs!DeleteRWFails(p, m)
  <1>1. PICK m \in Mounts : m = Mount(p) /\ LeavingMounts = {m}
    BY MountFacts, WhoDeletes DEF StoreInv, DeletingRWPcs
  <1>2. Return(p) /\ mounts' = [mounts EXCEPT ![m].refs = mounts[m].refs \cup {p}]
    BY <1>1 DEF Retake
  <1>3. op'[p].pc = "idle" /\ \A q \in Procs : q # p => op'[q] = op[q]
    BY <1>2, ReturnFacts, IdleFacts, NewCall DEF StoreInv
  <1>4. LeavingMounts' = {}
    BY <1>3, ReturnUnlocks DEF DeletingPcs, DeletingRWPcs
  <1>5. LeavingLayers' = LeavingLayers
    BY <1>3, NoDeletionStarts DEF DeletingPcs, DeletingRWPcs
  <1>6. Writable' = [Writable EXCEPT ![m].users = mounts[m].refs \cup {p}]
    BY <1>2, OtherUsers DEF StoreInv
  <1> QED BY <1>1, <1>4, <1>5, <1>6, WritableIs DEF Abs!DeleteRWFails, Abs!layers

LEMMA RemoveDataRWPromised ==
  ASSUME StoreInv, StoreInv', NEW p \in Procs, RemoveRW(p) \/ RemoveInit(p)
  PROVE  \/ Abs!Nothing
         \/ \E m \in Mounts : Abs!DeleteRWFails(p, m)
  <1>1. op[p].pc \in {"rmrw", "rminit"} /\ UNCHANGED <<layerMap, cache, parent, refs, disk>>
    BY DEF RemoveRW, RemoveInit, At, memory
  <1>2. op[p].pc \in DeletingRWPcs
    BY <1>1 DEF DeletingRWPcs
  <1>3. CASE Retake(p)
    BY <1>1, <1>2, <1>3, RetakePromised
  <1>4. ASSUME NEW pc \in {"rminit", "rmmount"}, Goto(p, pc), mounts' = mounts PROVE Abs!Nothing
    <2>1. PICK o \in Calls : op' = [op EXCEPT ![p] = o] /\ o.pc = pc /\ o.m = op[p].m
      BY <1>4, GotoFacts DEF StoreInv
    <2>2. op'[p].pc = pc /\ op'[p].m = op[p].m /\ \A q \in Procs : q # p => op'[q] = op[q]
      BY <2>1, NewCall DEF StoreInv
    <2>3. LeavingLayers' = LeavingLayers
      BY <1>1, <2>2, NoDeletionStarts DEF DeletingPcs
    <2>4. LeavingMounts' = LeavingMounts
      <3>1. ASSUME NEW m
            PROVE  (\E q \in Procs : op'[q].m = {m} /\ op'[q].pc \in DeletingRWPcs)
                     <=> (\E q \in Procs : op[q].m = {m} /\ op[q].pc \in DeletingRWPcs)
        BY <1>2, <2>2 DEF DeletingRWPcs
      <3> QED BY <3>1 DEF LeavingMounts, DeletingRWPcs
    <2>5. Damaged' = Damaged
      BY <1>1, <1>4, SameDamage
    <2> QED BY <1>1, <1>4, <2>3, <2>4, <2>5, NothingSeen
  <1> QED BY <1>3, <1>4 DEF RemoveRW, RemoveInit

LEMMA RemoveMountPromised ==
  ASSUME StoreInv, NEW p \in Procs, RemoveMount(p)
  PROVE  \/ (\E m \in Mounts : Abs!GoneRW(m)) /\ (Damaged' => Damaged)
         \/ \E m \in Mounts : Abs!DeleteRWFails(p, m)
  <1>1. op[p].pc = "rmmount" /\ UNCHANGED <<layerMap, cache, parent, refs, meta>>
    BY DEF RemoveMount, At, memory
  <1>2. op[p].pc \in DeletingRWPcs
    BY <1>1 DEF DeletingRWPcs
  <1>3. CASE Retake(p)
    BY <1>1, <1>2, <1>3, RetakePromised
  <1>4. PICK m \in Mounts : m = Mount(p) /\ LeavingMounts = {m}
    BY <1>2, MountFacts, WhoDeletes DEF StoreInv, DeletingRWPcs
  <1>5. CASE /\ mountMeta' = [mountMeta EXCEPT ![m] = NoFiles]
             /\ mounts' = [mounts EXCEPT ![m] = NoMount]
             /\ IF mounts[m].parent = <<>> THEN Return(p)
                ELSE op' = [op EXCEPT ![p].pc = "dec", ![p].cur = mounts[m].parent]
    <2>1. op'[p].pc \in {"idle", "dec"} /\ \A q \in Procs : q # p => op'[q] = op[q]
      <3>1. Return(p) => op'[p].pc = "idle" /\ \A q \in Procs : q # p => op'[q] = op[q]
        BY ReturnFacts, IdleFacts, NewCall DEF StoreInv
      <3>2. ASSUME op' = [op EXCEPT ![p].pc = "dec", ![p].cur = mounts[m].parent]
            PROVE  op'[p].pc = "dec" /\ \A q \in Procs : q # p => op'[q] = op[q]
        <4>1. mounts[m].parent \in Bases
          BY DEF StoreInv, MountsType
        <4>2. PICK o \in Calls : op' = [op EXCEPT ![p] = o] /\ o.pc = "dec"
          BY <3>2, <4>1, GotoRelease DEF StoreInv
        <4> QED BY <4>2, NewCall DEF StoreInv
      <3> QED BY <1>5, <3>1, <3>2
    <2>2. LeavingMounts' = {}
      BY <1>2, <2>1, ReturnUnlocks DEF DeletingPcs, DeletingRWPcs
    <2>3. LeavingLayers' = LeavingLayers
      BY <1>1, <2>1, NoDeletionStarts DEF DeletingPcs
    <2>4. Writable' = [Writable EXCEPT ![m] = Abs!NoWritable]
      <3>1. /\ \A n \in Mounts : n # m => mounts'[n] = mounts[n]
            /\ mounts'[m].in = FALSE /\ mounts'[m].parent = <<>> /\ mounts'[m].refs = {}
        BY <1>5 DEF StoreInv, MountsType, NoMount
      <3> QED BY <3>1 DEF Writable, Abs!NoWritable
    <2>5. Damaged' => Damaged
      <3>1. DiskMatches => DiskMatches'
        BY <1>1, <1>5, MountGoes
      <3>2. NothingElse' <=> NothingElse
        BY <1>1 DEF NothingElse
      <3> QED BY <3>1, <3>2 DEF Damaged
    <2> QED BY <1>1, <1>4, <2>2, <2>3, <2>4, <2>5 DEF Abs!GoneRW, Abs!layers
  <1> QED BY <1>3, <1>4, <1>5 DEF RemoveMount

-------------------------------------------------------------------------------
(* The daemon dies and loads the store                                         *)

\* A layer without parent file is loaded if it can be read, another one if its parent is too.
LEMMA LoadableOnParent ==
  ASSUME NEW mt, NEW c \in Chains, mt[c].state = "full",
         mt[c].parent # <<>> => Front(c) \in Chains /\ Loadable(mt, Front(c))
  PROVE  Loadable(mt, c)
  <1>1. PICK l \in Nat \ {0} : l = Len(c) /\ SubSeq(c, 1, l) = c
    BY ChainFacts, SubSeqFull
  <1>2. CASE mt[c].parent = <<>>
    <2>1. l \in 1..l /\ \A n \in l..l : n = l
      OBVIOUS
    <2>2. \A n \in l + 1 .. l : FALSE
      OBVIOUS
    <2> QED BY <1>1, <1>2, <2>1, <2>2 DEF Loadable
  <1>3. CASE mt[c].parent # <<>>
    <2>1. PICK f \in Chains : f = Front(c) /\ Loadable(mt, f)
      BY <1>3
    <2>2. Len(f) = l - 1 /\ \A n \in 1..(l - 1) : SubSeq(f, 1, n) = SubSeq(c, 1, n)
      BY <1>1, <2>1, FrontIsPrefix
    <2>3. PICK k \in 1..(l - 1) :
            /\ mt[SubSeq(f, 1, k)].parent = <<>>
            /\ \A n \in k..(l - 1) : mt[SubSeq(f, 1, n)].state = "full"
            /\ \A n \in k + 1 .. (l - 1) : mt[SubSeq(f, 1, n)].parent # <<>>
      BY <2>1, <2>2 DEF Loadable
    <2>4. /\ k \in 1..l
          /\ \A n \in k..l : n = l \/ (n \in k..(l - 1) /\ n \in 1..(l - 1))
          /\ \A n \in k + 1 .. l : n = l \/ (n \in k + 1 .. (l - 1) /\ n \in 1..(l - 1))
      OBVIOUS
    <2>5. /\ mt[SubSeq(c, 1, k)].parent = <<>>
          /\ \A n \in k..l : mt[SubSeq(c, 1, n)].state = "full"
          /\ \A n \in k + 1 .. l : mt[SubSeq(c, 1, n)].parent # <<>>
      BY <1>1, <1>3, <2>2, <2>3, <2>4
    <2> QED BY <1>1, <2>4, <2>5 DEF Loadable
  <1> QED BY <1>2, <1>3

\* The metadata that a dying daemon leaves: only that of the layer being deleted changes.
LEMMA CrashFiles ==
  ASSUME StoreInv, Crash, NEW c \in Chains
  PROVE  /\ c \notin LeavingLayers => meta'[c] = meta[c]
         /\ c \in LeavingLayers => meta'[c] \in Leftovers(meta[c])
  <1>1. meta'[c] \in DyingMeta(c)
    BY DEF Crash
  <1>2. (\E p \in Procs : At(p, "rmmeta") /\ op[p].cur = c) => c \in LeavingLayers
    BY DEF StoreInv, CallsOK, CallOK, LeavingLayers, At
  <1>3. meta[c] \in Leftovers(meta[c])
    BY DEF Leftovers
  <1> QED BY <1>1, <1>2, <1>3 DEF DyingMeta

\* Everything that was not being deleted is loaded, as long as the files were right.
LEMMA UsableLoads ==
  ASSUME StoreInv, Crash, DiskMatches, NEW c \in Abs!Usable
  PROVE  Loadable(meta', c)
  <1>1. PICK mt : mt = meta'
    OBVIOUS
  <1>2. layerMap \subseteq Chains /\ parent \in [Chains -> Bases] /\ meta \in [Chains -> Metas]
    BY DEF StoreInv, MemoryType, DiskType
  <1>3. ASSUME NEW d \in Abs!Usable
        PROVE  /\ d \in Chains /\ mt[d].state = "full" /\ mt[d].parent = parent[d]
               /\ parent[d] # <<>> => parent[d] = Front(d) /\ Front(d) \in Abs!Usable
    <2>1. d \in layerMap /\ d \in Chains /\ d \notin LeavingLayers
      BY <1>2 DEF Abs!Usable
    <2>2. meta[d] = [state |-> "full", cache |-> cache[d], parent |-> parent[d]]
      BY <2>1 DEF DiskMatches, Written
    <2>3. mt[d] = meta[d]
      BY <1>1, <2>1, CrashFiles
    <2>4. parent[d] \in {<<>>, Front(d)}
      <3>1. meta[d].parent \in {<<>>, Front(d)}
        BY <2>1 DEF StoreInv, Parents, MetaOK
      <3> QED BY <2>2, <3>1
    <2>5. parent[d] # <<>> => parent[d] \in Abs!Usable
      BY <2>1, NeededLayers, RetainedIsUsable
    <2> QED BY <2>1, <2>2, <2>3, <2>4, <2>5
  <1> DEFINE S == {d \in Abs!Usable : ~Loadable(mt, d)}
             T == {Len(d) : d \in S}
  <1>4. ASSUME S # {} PROVE FALSE
    <2>1. T \subseteq Nat /\ T # {}
      <3>1. \A d \in S : Len(d) \in Nat
        BY <1>3, ChainFacts
      <3> QED BY <1>4, <3>1
    <2> HIDE DEF T
    <2>2. PICK x \in T : \A y \in T : ~(<<y, x>> \in OpToRel(<, Nat))
      BY <2>1, NatLessThanWellFounded, WFMin
    <2>3. PICK d \in S : x = Len(d)
      BY DEF T
    <2>4. d \in Chains /\ mt[d].state = "full" /\ mt[d].parent = parent[d]
      BY <1>3
    <2>5. ASSUME parent[d] # <<>> PROVE Front(d) \in Chains /\ Loadable(mt, Front(d))
      <3>1. Front(d) \in Abs!Usable /\ Front(d) \in Chains
        BY <1>3, <2>5
      <3>2. Len(Front(d)) < Len(d) /\ Len(Front(d)) \in Nat /\ Len(d) \in Nat
        BY <2>4, <3>1, FrontIsPrefix, ChainFacts
      <3>3. Len(Front(d)) \notin T
        BY <2>2, <2>3, <3>2 DEF OpToRel
      <3> QED BY <3>1, <3>3 DEF T
    <2>6. Loadable(mt, d)
      BY <2>4, <2>5, LoadableOnParent
    <2> QED BY <2>6
  <1> QED BY <1>1, <1>4

\* The invariant of the mounts that loading one needs: there is a driver's layer to it.
MountsHaveData ==
  /\ \A m \in Mounts : mounts[m].in => mounts[m].rw # 0
  /\ \A p \in Procs : op[p].pc = "save" => op[p].new # 0

\* Only a mount that is being made or deleted has other files when the daemon dies.
LEMMA CrashMountFiles ==
  ASSUME StoreInv, Crash, NEW m \in Mounts, mounts[m].in, m \notin LeavingMounts
  PROVE  mountMeta'[m] = mountMeta[m]
  <1>1. mountMeta'[m] \in DyingMount(m)
    BY DEF Crash
  <1>2. ~\E q \in Procs : At(q, "save") /\ Mount(q) = m
    BY MountFacts DEF StoreInv, At
  <1>3. ~\E q \in Procs : At(q, "rmmount") /\ Mount(q) = m
    BY MountFacts DEF StoreInv, At, LeavingMounts
  <1> QED BY <1>1, <1>2, <1>3 DEF DyingMount

\* What is loaded is on something that is loaded.
LEMMA LoadedOnLoaded ==
  ASSUME StoreInv', Crash
  PROVE  /\ parent' \in [Chains -> layerMap' \cup {<<>>}]
         /\ \A m \in Mounts : mounts'[m].parent \in layerMap' \cup {<<>>} /\ mounts'[m].in \in BOOLEAN
  <1>1. NeededIsInMap'
    BY NeededNext
  <1>2. /\ layerMap' \subseteq Chains
        /\ parent' = [c \in Chains |-> IF c \in layerMap' THEN meta'[c].parent ELSE <<>>]
    BY DEF Crash
  <1>3. \A c \in Chains : parent'[c] \in layerMap' \cup {<<>>}
    BY <1>1, <1>2 DEF NeededIsInMap
  <1>4. ASSUME NEW m \in Mounts
        PROVE  mounts'[m].parent \in layerMap' \cup {<<>>} /\ mounts'[m].in \in BOOLEAN
    <2>1. mounts'[m].in \in BOOLEAN
      BY DEF StoreInv, MountsType
    <2>2. mounts'[m].in => mounts'[m].parent \in layerMap' \cup {<<>>}
      BY <1>1 DEF NeededIsInMap
    <2>3. ~mounts'[m].in => mounts'[m].parent = <<>>
      <3>1. ~mounts'[m].in => mounts'[m] = NoMount
        BY DEF StoreInv, NoStaleMount, MountOK
      <3> QED BY <3>1 DEF NoMount
    <2> QED BY <2>1, <2>2, <2>3
  <1> QED BY <1>2, <1>3, <1>4

\* If the files were right, what is found is what was there, but for what was being deleted.
LEMMA CrashFinds ==
  ASSUME StoreInv, Crash, ~Damaged, MountsHaveData
  PROVE  /\ Abs!Usable \subseteq layerMap' /\ layerMap' \subseteq layerMap
         /\ \A c \in layerMap' : parent'[c] = parent[c] \/ (c \in LeavingLayers /\ parent'[c] = <<>>)
         /\ \A m \in Mounts : mounts[m].in /\ m \notin LeavingMounts =>
              mounts'[m].in /\ mounts'[m].parent = mounts[m].parent
         /\ ~Damaged'
  <1>1. DiskMatches /\ NothingElse
    BY DEF Damaged
  <1>2. PICK mt \in [Chains -> Metas], mm \in [Mounts -> Files] : mt = meta' /\ mm = mountMeta'
    BY DyingDisk DEF DiskType
  <1>3. /\ layerMap' = {c \in Chains : Loadable(mt, c)}
        /\ parent' = [c \in Chains |-> IF c \in layerMap' THEN mt[c].parent ELSE <<>>]
        /\ mounts' = [m \in Mounts |->
             IF MountLoadable(mt, mm[m])
             THEN [in |-> TRUE, parent |-> mm[m].parent, rw |-> mm[m].rw, init |-> mm[m].init, refs |-> {}]
             ELSE NoMount]
    BY <1>2 DEF Crash
  <1>4. layerMap \subseteq Chains /\ meta \in [Chains -> Metas] /\ parent \in [Chains -> Bases]
    BY DEF StoreInv, MemoryType, DiskType
  <1>5. Abs!Usable \subseteq layerMap'
    BY <1>1, <1>2, <1>3, <1>4, UsableLoads DEF Abs!Usable
  <1>6. ASSUME NEW c \in Chains, mt[c].state = "full"
        PROVE  /\ c \in layerMap
               /\ mt[c].parent = parent[c] \/ (c \in LeavingLayers /\ mt[c].parent = <<>>)
    <2>1. c \in layerMap
      <3>1. CASE c \in LeavingLayers
        BY <3>1 DEF LeavingLayers
      <3>2. CASE c \notin LeavingLayers
        BY <1>1, <1>2, <1>6, <3>2, CrashFiles DEF NothingElse
      <3> QED BY <3>1, <3>2
    <2>2. meta[c].parent = parent[c]
      <3>1. meta[c] = [state |-> "full", cache |-> cache[c], parent |-> parent[c]]
        BY <1>1, <2>1 DEF DiskMatches, Written
      <3> QED BY <3>1
    <2>3. CASE c \notin LeavingLayers
      BY <1>2, <2>1, <2>2, <2>3, CrashFiles
    <2>4. CASE c \in LeavingLayers
      <3>1. mt[c] \in Leftovers(meta[c])
        BY <1>2, <2>4, CrashFiles
      <3>2. mt[c].parent \in {<<>>, meta[c].parent}
        <4>1. meta[c] \in Metas
          BY <1>4
        <4>2. [meta[c] EXCEPT !.parent = <<>>].parent = <<>>
          BY <4>1 DEF Metas
        <4>3. [NoMeta EXCEPT !.state = "partial"].parent = <<>> /\ NoMeta.parent = <<>>
          BY DEF NoMeta
        <4> QED BY <3>1, <4>2, <4>3 DEF Leftovers
      <3> QED BY <2>1, <2>2, <2>4, <3>2
    <2> QED BY <2>1, <2>3, <2>4
  <1>7. \A c \in layerMap' : mt[c].state = "full"
    BY <1>3, LoadedIsFull
  <1>8. /\ layerMap' \subseteq layerMap
        /\ \A c \in layerMap' : parent'[c] = parent[c] \/ (c \in LeavingLayers /\ parent'[c] = <<>>)
    BY <1>3, <1>6, <1>7
  <1>9. ASSUME NEW m \in Mounts, mounts[m].in, m \notin LeavingMounts
        PROVE  mounts'[m].in /\ mounts'[m].parent = mounts[m].parent
    <2>1. mm[m] = [rw |-> mounts[m].rw, init |-> mounts[m].init, parent |-> mounts[m].parent]
      BY <1>1, <1>2, <1>9, CrashMountFiles DEF DiskMatches, MountWritten
    <2>2. mm[m].rw # 0 /\ mm[m].parent = mounts[m].parent
      BY <1>9, <2>1 DEF MountsHaveData
    <2>3. mounts[m].parent # <<>> => mounts[m].parent \in Abs!Usable
      BY <1>9, NeededLayers, RetainedIsUsable
    <2>4. MountLoadable(mt, mm[m])
      BY <1>3, <1>5, <2>2, <2>3 DEF MountLoadable
    <2>5. mounts'[m] = [in |-> TRUE, parent |-> mm[m].parent, rw |-> mm[m].rw, init |-> mm[m].init, refs |-> {}]
      BY <1>3, <2>4
    <2> QED BY <2>2, <2>5
  <1>10. NothingElse'
    <2>1. ASSUME NEW c \in Chains, mt[c].state = "full" PROVE c \in layerMap'
      <3>1. c \in layerMap /\ (mt[c].parent = parent[c] \/ mt[c].parent = <<>>)
        BY <1>6, <2>1
      <3>2. ASSUME mt[c].parent # <<>> PROVE Front(c) \in Chains /\ Loadable(mt, Front(c))
        <4>1. parent[c] \in Abs!Usable /\ parent[c] \in Chains
          BY <3>1, <3>2, NeededLayers, RetainedIsUsable
        <4>2. mt[c].parent = Front(c)
          BY <1>2, <3>2, DyingDisk DEF Parents, MetaOK
        <4> QED BY <1>3, <1>5, <3>1, <3>2, <4>1, <4>2
      <3>3. Loadable(mt, c)
        BY <2>1, <3>2, LoadableOnParent
      <3> QED BY <1>3, <3>3
    <2> QED BY <1>2, <2>1 DEF NothingElse
  <1>11. ~Damaged'
    BY <1>10, CrashWrites DEF Damaged
  <1> QED BY <1>5, <1>8, <1>9, <1>11

LEMMA CrashPromised ==
  ASSUME StoreInv, StoreInv', Crash, MountsHaveData
  PROVE  Abs!Restart /\ (Damaged' => Damaged)
  <1>1. /\ refs' = [c \in Chains |-> {}] /\ layerMap' \subseteq Chains
        /\ op' = [p \in Procs |-> Idle]
    BY DEF Crash
  <1>2. LeavingLayers' = {} /\ LeavingMounts' = {}
    BY <1>1, IdleFacts DEF LeavingLayers, LeavingMounts
  <1>3. \A m \in Mounts : mounts'[m].refs = {}
    BY DEF Crash, NoMount
  <1>4. Writable' \in [Mounts -> [in : BOOLEAN, on : layerMap' \cup {<<>>}, users : {{}}]]
    BY <1>3, LoadedOnLoaded DEF Writable
  <1>5. ASSUME ~Damaged
        PROVE  /\ Abs!Usable \subseteq layerMap' /\ layerMap' \subseteq layerMap
               /\ \A c \in layerMap' : parent'[c] = parent[c] \/ (c \in LeavingLayers /\ parent'[c] = <<>>)
               /\ \A m \in Mounts : Writable[m].in /\ m \notin LeavingMounts =>
                    Writable'[m].in /\ Writable'[m].on = Writable[m].on
    <2>1. \A m \in Mounts : Writable'[m].in = mounts'[m].in /\ Writable'[m].on = mounts'[m].parent
      BY DEF Writable
    <2> QED BY <1>5, <2>1, CrashFinds, WritableIs
  <1>6. parent' \in [Chains -> layerMap' \cup {<<>>}]
    BY LoadedOnLoaded
  <1>7. Abs!Restart
    BY <1>1, <1>2, <1>4, <1>5, <1>6 DEF Abs!Restart
  <1>8. Damaged' => Damaged
    BY CrashFinds
  <1> QED BY <1>7, <1>8

\* Who has a mount made the driver's layer first.
LEMMA MountsKeepData ==
  ASSUME StoreInv, MountsHaveData, [Next]_vars
  PROVE  MountsHaveData'
  <1>1. ASSUME NEW p \in Procs, \A q \in Procs : q # p => op'[q] = op[q], op'[p].pc # "save",
               \A m \in Mounts : mounts'[m].in => mounts'[m].rw # 0
        PROVE  MountsHaveData'
    BY <1>1 DEF MountsHaveData
  <1>2. ASSUME NEW p \in Procs, NEW c \in Chains,
               Get(p, c) \/ Release(p, c) \/ Register(p, c) \/ \E m \in Mounts : CreateRWLayer(p, m, c)
        PROVE  MountsHaveData'
    BY <1>1, <1>2, EnterFacts DEF MountsHaveData
  <1>3. ASSUME NEW p \in Procs, NEW m \in Mounts, GetRWLayer(p, m) \/ ReleaseRWLayer(p, m)
        PROVE  MountsHaveData'
    BY <1>1, <1>3, EnterMountFacts DEF MountsHaveData
  <1>4. ASSUME NEW p \in Procs, Enter(p) PROVE MountsHaveData'
    BY <1>2, <1>3, <1>4 DEF Enter
  <1>5. ASSUME NEW p \in Procs, Return(p)
        PROVE  op'[p].pc # "save" /\ \A q \in Procs : q # p => op'[q] = op[q]
    BY <1>5, ReturnFacts, IdleFacts, NewCall DEF StoreInv
  <1>6. ASSUME NEW p \in Procs, Fail(p)
        PROVE  op'[p].pc # "save" /\ \A q \in Procs : q # p => op'[q] = op[q]
    BY <1>6, FailGivesUp DEF StoreInv
  <1>7. ASSUME NEW p \in Procs, NEW pc \in {"rmdata", "rmmeta", "commit", "cleanup", "rminit", "rmmount"}, Goto(p, pc)
        PROVE  op'[p].pc # "save" /\ \A q \in Procs : q # p => op'[q] = op[q]
    <2>1. PICK o \in Calls : op' = [op EXCEPT ![p] = o] /\ o.pc = pc
      BY <1>7, GotoFacts DEF StoreInv
    <2> QED BY <2>1, NewCall DEF StoreInv
  <1>8. ASSUME NEW p \in Procs, NEW c \in Bases, op' = [op EXCEPT ![p].pc = "dec", ![p].cur = c]
        PROVE  op'[p].pc # "save" /\ \A q \in Procs : q # p => op'[q] = op[q]
    <2>1. PICK o \in Calls : op' = [op EXCEPT ![p] = o] /\ o.pc = "dec"
      BY <1>8, GotoRelease DEF StoreInv
    <2> QED BY <2>1, NewCall DEF StoreInv
  <1>9. ASSUME NEW p \in Procs, NEW o \in Calls, op' = [op EXCEPT ![p] = o]
        PROVE  op'[p] = o /\ \A q \in Procs : q # p => op'[q] = op[q]
    BY <1>9, NewCall DEF StoreInv
  <1>10. ASSUME NEW p \in Procs, Step(p) PROVE MountsHaveData'
    <2>1. CASE Dec(p)
      BY <1>1, <2>1, DecFacts DEF MountsHaveData
    <2>2. CASE RemoveData(p)
      BY <1>1, <1>5, <1>7, <2>2 DEF RemoveData, MountsHaveData
    <2>3. CASE RemoveMeta(p)
      <3>1. parent[op[p].cur] \in Bases
        BY <2>3 DEF RemoveMeta, At, StoreInv, CallsOK, CallOK, MemoryType
      <3> QED BY <1>1, <1>5, <1>8, <2>3, <3>1 DEF RemoveMeta, MountsHaveData
    <2>4. CASE RegisterCreate(p)
      BY <1>1, <1>6, <1>9, <2>4, RegisterCreateFacts DEF MountsHaveData
    <2>5. CASE RegisterApply(p) \/ RegisterCleanup(p)
      BY <1>1, <1>6, <1>7, <2>5 DEF RegisterApply, RegisterCleanup, MountsHaveData
    <2>6. CASE RegisterCommit(p)
      BY <1>1, <1>5, <1>7, <2>6 DEF RegisterCommit, MountsHaveData
    <2>7. CASE InitMount(p)
      BY <1>1, <1>6, <1>9, <2>7, InitMountFacts DEF MountsHaveData
    <2>8. CASE CreateReadWrite(p)
      <3>1. CASE Fail(p)
        BY <1>1, <1>6, <2>8, <3>1, CreateReadWriteFacts DEF MountsHaveData
      <3>2. ASSUME NEW d \in Data, NEW o \in Calls, op' = [op EXCEPT ![p] = o], o.new = d
            PROVE  MountsHaveData'
        BY <1>9, <2>8, <3>2, CreateReadWriteFacts DEF MountsHaveData, Data
      <3> QED BY <2>8, <3>1, <3>2, CreateReadWriteFacts
    <2>9. CASE SaveMount(p)
      <3>1. Mount(p) \in Mounts /\ op[p].new # 0
        BY <2>9, MountFacts DEF SaveMount, At, StoreInv, MountsHaveData
      <3>2. \A m \in Mounts : mounts'[m].in => mounts'[m].rw # 0
        <4>1. PICK r : /\ r = [in |-> TRUE, parent |-> op[p].cur, rw |-> op[p].new,
                               init |-> op[p].init, refs |-> {p}]
                       /\ mounts' = mounts \/ mounts' = [mounts EXCEPT ![Mount(p)] = r]
          BY <2>9 DEF SaveMount
        <4>2. r.rw # 0
          BY <3>1, <4>1
        <4> QED BY <3>1, <4>1, <4>2 DEF StoreInv, MountsType, MountsHaveData
      <3> QED BY <1>1, <1>5, <1>6, <2>9, <3>2 DEF SaveMount
    <2>10. CASE RemoveRW(p) \/ RemoveInit(p)
      <3>1. Mount(p) \in Mounts
        BY <2>10, MountFacts DEF RemoveRW, RemoveInit, At, StoreInv
      <3>2. \A m \in Mounts : mounts'[m].in => mounts'[m].rw # 0
        <4>1. mounts' = mounts \/ \E R : mounts' = [mounts EXCEPT ![Mount(p)].refs = R]
          BY <2>10 DEF RemoveRW, RemoveInit, Retake
        <4> QED BY <3>1, <4>1, SameMounts DEF StoreInv, MountsHaveData
      <3> QED BY <1>1, <1>5, <1>7, <2>10, <3>2 DEF RemoveRW, RemoveInit, Retake
    <2>11. CASE RemoveMount(p)
      <3>1. Mount(p) \in Mounts /\ mounts[Mount(p)].parent \in Bases
        BY <2>11, MountFacts DEF RemoveMount, At, StoreInv, MountsType
      <3>2. \A m \in Mounts : mounts'[m].in => mounts'[m].rw # 0
        <4>1. CASE mounts' = [mounts EXCEPT ![Mount(p)] = NoMount]
          BY <3>1, <4>1 DEF StoreInv, MountsType, MountsHaveData, NoMount
        <4>2. CASE \E R : mounts' = [mounts EXCEPT ![Mount(p)].refs = R]
          BY <3>1, <4>2, SameMounts DEF StoreInv, MountsHaveData
        <4> QED BY <2>11, <4>1, <4>2 DEF RemoveMount, Retake
      <3> QED BY <1>1, <1>5, <1>8, <2>11, <3>1, <3>2 DEF RemoveMount, Retake
    <2> QED BY <1>10, <2>1, <2>2, <2>3, <2>4, <2>5, <2>6, <2>7, <2>8, <2>9, <2>10, <2>11 DEF Step
  <1>11. CASE Crash
    <2>1. \A p \in Procs : op'[p] = Idle
      BY <1>11 DEF Crash
    <2>2. \A m \in Mounts : mounts'[m].in => mounts'[m].rw # 0
      BY <1>11 DEF Crash, MountLoadable, NoMount
    <2> QED BY <2>1, <2>2, IdleFacts DEF MountsHaveData
  <1>12. CASE UNCHANGED vars
    BY <1>12 DEF vars, MountsHaveData
  <1> QED BY <1>4, <1>10, <1>11, <1>12 DEF Next

\* Every step is one that LayerPromise allows.
LEMMA StepPromised ==
  ASSUME StoreInv, StoreInv', MountsHaveData, [Next]_vars
  PROVE  [Abs!AbsNext]_(Abs!avars)
  <1>1. Abs!Nothing => Abs!AbsNext
    BY DEF Abs!AbsNext
  <1>2. Abs!Works /\ (Damaged' => Damaged) => Abs!AbsNext
    BY DEF Abs!AbsNext
  <1>3. Abs!Fails => Abs!AbsNext
    BY DEF Abs!AbsNext, Damaged
  <1>4. ASSUME NEW p \in Procs, NEW c \in Chains,
               Get(p, c) \/ Release(p, c) \/ Register(p, c) \/ \E m \in Mounts : CreateRWLayer(p, m, c)
        PROVE  Abs!AbsNext
    BY <1>1, <1>2, <1>4, EnterPromised DEF Abs!Works
  <1>5. ASSUME NEW p \in Procs, NEW m \in Mounts, GetRWLayer(p, m) \/ ReleaseRWLayer(p, m)
        PROVE  Abs!AbsNext
    BY <1>2, <1>5, EnterMountPromised DEF Abs!Works
  <1>6. ASSUME NEW p \in Procs, Enter(p) PROVE Abs!AbsNext
    BY <1>4, <1>5, <1>6 DEF Enter
  <1>7. ASSUME NEW p \in Procs, Step(p) PROVE Abs!AbsNext
    <2>1. CASE Dec(p)
      BY <1>1, <1>2, <2>1, DecPromised DEF Abs!Works
    <2>2. CASE RemoveData(p)
      BY <1>1, <1>3, <2>2, RemoveDataPromised DEF Abs!Fails
    <2>3. CASE RemoveMeta(p)
      BY <1>2, <1>3, <2>3, RemoveMetaPromised DEF Abs!Works, Abs!Fails
    <2>4. CASE \/ RegisterCreate(p) \/ RegisterApply(p) \/ RegisterCleanup(p)
               \/ InitMount(p) \/ CreateReadWrite(p)
      BY <1>1, <2>4, MakingPromised
    <2>5. CASE RegisterCommit(p)
      BY <1>1, <1>2, <2>5, CommitPromised DEF Abs!Works
    <2>6. CASE SaveMount(p)
      BY <1>1, <1>2, <2>6, SavePromised DEF Abs!Works
    <2>7. CASE RemoveRW(p) \/ RemoveInit(p)
      BY <1>1, <1>3, <2>7, RemoveDataRWPromised DEF Abs!Fails
    <2>8. CASE RemoveMount(p)
      BY <1>2, <1>3, <2>8, RemoveMountPromised DEF Abs!Works, Abs!Fails
    <2> QED BY <1>7, <2>1, <2>2, <2>3, <2>4, <2>5, <2>6, <2>7, <2>8 DEF Step
  <1>8. CASE Crash
    BY <1>2, <1>8, CrashPromised DEF Abs!Works
  <1>9. CASE UNCHANGED vars
    <2>1. UNCHANGED <<layerMap, parent, refs, mounts, op, cache, meta, mountMeta>>
      BY <1>9 DEF vars
    <2>2. LeavingLayers' = LeavingLayers /\ LeavingMounts' = LeavingMounts
      BY <2>1 DEF LeavingLayers, LeavingMounts
    <2>3. Damaged' = Damaged
      BY <2>1, SameDamage DEF disk
    <2> QED BY <1>1, <2>1, <2>2, <2>3, NothingSeen
  <1> QED BY <1>6, <1>7, <1>8, <1>9 DEF Next

LEMMA InitPromised == Init => Abs!AbsInit /\ MountsHaveData
  <1> SUFFICES ASSUME Init PROVE Abs!AbsInit /\ MountsHaveData
    OBVIOUS
  <1>1. LeavingLayers = {} /\ LeavingMounts = {}
    BY IdleFacts DEF Init, LeavingLayers, LeavingMounts
  <1>2. Writable = [m \in Mounts |-> Abs!NoWritable]
    BY DEF Init, Writable, NoMount, Abs!NoWritable
  <1>3. Damaged = FALSE
    BY DEF Init, Damaged, DiskMatches, NothingElse, NoMount, NoMeta
  <1>4. MountsHaveData
    BY IdleFacts DEF Init, MountsHaveData, NoMount
  <1> QED BY <1>1, <1>2, <1>3, <1>4 DEF Init, Abs!AbsInit

\* The store implements LayerPromise, whatever fails and whenever the daemon dies: no layer
\* is deleted that somebody holds or something is on, nobody gets a layer or a mount that is
\* being deleted, and a start finds again everything that was not, as long as no removal of
\* files failed halfway (layer_store.go:62-180, 252-530, filestore.go).
THEOREM StoreImplementsPromise == Spec => ImplementsPromise
  <1>1. StoreInv /\ MountsHaveData /\ [Next]_vars => MountsHaveData'
    BY MountsKeepData
  <1>2. StoreInv /\ StoreInv' /\ MountsHaveData /\ [Next]_vars => [Abs!AbsNext]_(Abs!avars)
    BY StepPromised
  <1> QED BY <1>1, <1>2, InitPromised, StoreInvariant, PTL DEF Spec, ImplementsPromise, Abs!AbsSpec
=================================================================================
