------------------------------ MODULE LayerPromise ------------------------------
(***************************************************************************)
(* What layer.Store promises those that use it (layer/layer.go), without   *)
(* the counts, locks, transactions and files that implement it: a layer is *)
(* there from when it was registered, on the layer it was registered on,   *)
(* while somebody holds it or something is on it; a writable layer until   *)
(* its last holder releases it; and a daemon that dies at any moment finds *)
(* again everything but what was being deleted.                            *)
(***************************************************************************)
EXTENDS Sequences, SequencesExt

CONSTANTS Procs,   \* goroutines that use the store
          Chains,  \* chain IDs
          Mounts   \* names of writable layers

VARIABLES there,    \* the layers there are
          below,    \* below[c]: what layer c is on, <<>> for nothing
          holders,  \* holders[c]: who holds c
          leaving,  \* the layers that are being deleted
          writable, \* the writable layers: on is the layer one is on
          leavingRW, \* the writable layers that are being deleted
          damaged   \* has a deletion that failed halfway left files that are wrong

avars == <<there, below, holders, leaving, writable, leavingRW, damaged>>
layers == <<there, below, leaving>>
rwLayers == <<writable, leavingRW>>

NoWritable == [in |-> FALSE, on |-> <<>>, users |-> {}]

AbsInit ==
  /\ there = {}
  /\ below = [c \in Chains |-> <<>>]
  /\ holders = [c \in Chains |-> {}]
  /\ leaving = {}
  /\ writable = [m \in Mounts |-> NoWritable]
  /\ leavingRW = {}
  /\ damaged = FALSE

\* Somebody holds c, or something is on it.
Needed(c) ==
  \/ holders[c] # {}
  \/ \E d \in there : below[d] = c
  \/ \E m \in Mounts : writable[m].in /\ writable[m].on = c

\* What one may hold, or put something on.
Usable == there \ leaving

Get(p, c) ==
  /\ c \in Usable /\ p \notin holders[c]
  /\ holders' = [holders EXCEPT ![c] = @ \cup {p}]
  /\ UNCHANGED <<layers, rwLayers>>

Release(p, c) ==
  /\ p \in holders[c]
  /\ holders' = [holders EXCEPT ![c] = @ \ {p}]
  /\ UNCHANGED <<layers, rwLayers>>

Register(p, c) ==
  /\ c \notin there
  /\ Front(c) \in Usable \cup {<<>>}
  /\ there' = there \cup {c}
  /\ below' = [below EXCEPT ![c] = Front(c)]
  /\ holders' = [holders EXCEPT ![c] = {p}]
  /\ UNCHANGED <<leaving, rwLayers>>

\* A layer that nobody needs is deleted: it cannot be used any more, then it is gone,
\* or deleting it fails and it stays.
Delete(c) ==
  /\ c \in Usable /\ ~Needed(c)
  /\ leaving' = leaving \cup {c}
  /\ UNCHANGED <<there, below, holders, rwLayers>>

Gone(c) ==
  /\ c \in leaving
  /\ there' = there \ {c}
  /\ below' = [below EXCEPT ![c] = <<>>]
  /\ leaving' = leaving \ {c}
  /\ UNCHANGED <<holders, rwLayers>>

DeleteFails(c) ==
  /\ c \in leaving
  /\ leaving' = leaving \ {c}
  /\ UNCHANGED <<there, below, holders, rwLayers>>

CreateRW(p, m, c) ==
  /\ ~writable[m].in /\ c \in Usable
  /\ writable' = [writable EXCEPT ![m] = [in |-> TRUE, on |-> c, users |-> {p}]]
  /\ UNCHANGED <<layers, holders, leavingRW>>

GetRW(p, m) ==
  /\ writable[m].in /\ m \notin leavingRW /\ p \notin writable[m].users
  /\ writable' = [writable EXCEPT ![m].users = @ \cup {p}]
  /\ UNCHANGED <<layers, holders, leavingRW>>

\* The last holder deletes the writable layer with what was written.
ReleaseRW(p, m) ==
  /\ p \in writable[m].users
  /\ writable' = [writable EXCEPT ![m].users = @ \ {p}]
  /\ leavingRW' = leavingRW \cup (IF writable[m].users = {p} THEN {m} ELSE {})
  /\ UNCHANGED <<layers, holders>>

GoneRW(m) ==
  /\ m \in leavingRW
  /\ writable' = [writable EXCEPT ![m] = NoWritable]
  /\ leavingRW' = leavingRW \ {m}
  /\ UNCHANGED <<layers, holders>>

\* The deletion fails, and its caller holds the writable layer again.
DeleteRWFails(p, m) ==
  /\ m \in leavingRW
  /\ writable' = [writable EXCEPT ![m].users = @ \cup {p}]
  /\ leavingRW' = leavingRW \ {m}
  /\ UNCHANGED <<layers, holders>>

\* A restart, and what is found: nobody holds anything; everything is on something that
\* is there.  Only what was being deleted is lost, or has lost what it was on; a writable
\* layer that was not there may turn up, because making one may fail halfway.  Damaged
\* files are another matter.
Restart ==
  /\ holders' = [c \in Chains |-> {}]
  /\ leaving' = {} /\ leavingRW' = {}
  /\ there' \subseteq Chains
  /\ below' \in [Chains -> there' \cup {<<>>}]
  /\ writable' \in [Mounts -> [in : BOOLEAN, on : there' \cup {<<>>}, users : {{}}]]
  /\ ~damaged =>
       /\ Usable \subseteq there' /\ there' \subseteq there
       /\ \A c \in there' : below'[c] = below[c] \/ (c \in leaving /\ below'[c] = <<>>)
       /\ \A m \in Mounts : writable[m].in /\ m \notin leavingRW =>
            writable'[m].in /\ writable'[m].on = writable[m].on

\* What may leave wrong files behind.
Fails ==
  \/ \E c \in Chains : DeleteFails(c)
  \/ \E p \in Procs, m \in Mounts : DeleteRWFails(p, m)

Works ==
  \/ \E p \in Procs, c \in Chains : Get(p, c) \/ Release(p, c) \/ Register(p, c)
  \/ \E c \in Chains : Delete(c) \/ Gone(c)
  \/ \E p \in Procs, m \in Mounts, c \in Chains : CreateRW(p, m, c)
  \/ \E p \in Procs, m \in Mounts : GetRW(p, m) \/ ReleaseRW(p, m)
  \/ \E m \in Mounts : GoneRW(m)
  \/ Restart

\* A call that fails, or has more to do, has changed nothing.
Nothing == UNCHANGED avars

AbsNext ==
  \/ Nothing
  \/ Works /\ (damaged' => damaged)
  \/ Fails /\ damaged' \in BOOLEAN

AbsSpec == AbsInit /\ [][AbsNext]_avars
===============================================================================
