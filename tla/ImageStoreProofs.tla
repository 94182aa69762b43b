---------------------------- MODULE ImageStoreProofs ----------------------------
(***************************************************************************)
(* What ImageStore promises for any number of requests, images, layers,    *)
(* references and containers, with saves that fail and restarts at any     *)
(* step: the index of references, the counts of the layers and the layers  *)
(* that are in use, the children of an image, and that the daemon starts.  *)
(***************************************************************************)
EXTENDS ImageStore, FiniteSetTheorems, SequenceTheorems, TLAPS

-------------------------------------------------------------------------------
(* What is left to do in a request                                             *)

\* The request holds the layer of its image and will release it.
Holding ==
  {<<"set", "create", "release", "digest", "tag">>, <<"create", "release", "digest", "tag">>,
   <<"release", "digest", "tag">>,
   <<"set", "create", "setparent", "tag", "release">>, <<"create", "setparent", "tag", "release">>,
   <<"setparent", "tag", "release">>, <<"tag", "release">>, <<"release">>,
   <<"set", "create", "tag", "setparent", "release">>, <<"create", "tag", "setparent", "release">>,
   <<"tag", "setparent", "release">>, <<"setparent", "release">>,
   <<"set", "create", "tag", "release">>, <<"create", "tag", "release">>}

\* It will hold it.
Fresh == {Program["pull"], Program["commit"], Program["load"], Program["import"]}

\* A build that found its step in the cache: nothing is held.
Cached == {<<"set", "create", "setparent">>, <<"create", "setparent">>, <<"setparent">>}

\* The request deletes, or adds references only, or is done.
Plain ==
  {<<"digest", "tag">>, <<"tag">>, <<"untag", "rest">>, <<"rest">>, <<"untag", "check">>, <<"check">>,
   <<"untag">>, <<"all">>, <<"untag", "delete">>, <<"delete">>, <<>>}

\* The deletion has taken the image from the maps and not released its layer.
Deleting == {<<"fsdelete", "lrelease">>, <<"lrelease">>}

\* A container is made.
Making == {<<"rwlayer", "register">>, <<"register">>}

Todos == Holding \cup Fresh \cup Cached \cup Plain \cup Deleting \cup Making

\* What the first step of a list tells of it, and what is left after that step.
LEMMA HoldingStep ==
  ASSUME NEW s \in Holding
  PROVE  /\ s # <<>>
         /\ Head(s) \in {"set", "create", "release", "tag", "setparent"}
         /\ Head(s) = "release" => Tail(s) \in Plain
         /\ Head(s) # "release" => Tail(s) \in Holding
         /\ Head(s) = "set" => Head(Tail(s)) = "create"
  <1>1. CASE s = <<"set", "create", "release", "digest", "tag">>
    BY <1>1 DEF Holding, Plain
  <1>2. CASE s = <<"create", "release", "digest", "tag">>
    BY <1>2 DEF Holding, Plain
  <1>3. CASE s = <<"release", "digest", "tag">>
    BY <1>3 DEF Holding, Plain
  <1>4. CASE s = <<"set", "create", "setparent", "tag", "release">>
    BY <1>4 DEF Holding, Plain
  <1>5. CASE s = <<"create", "setparent", "tag", "release">>
    BY <1>5 DEF Holding, Plain
  <1>6. CASE s = <<"setparent", "tag", "release">>
    BY <1>6 DEF Holding, Plain
  <1>7. CASE s = <<"tag", "release">>
    BY <1>7 DEF Holding, Plain
  <1>8. CASE s = <<"release">>
    BY <1>8 DEF Holding, Plain
  <1>9. CASE s = <<"set", "create", "tag", "setparent", "release">>
    BY <1>9 DEF Holding, Plain
  <1>10. CASE s = <<"create", "tag", "setparent", "release">>
    BY <1>10 DEF Holding, Plain
  <1>11. CASE s = <<"tag", "setparent", "release">>
    BY <1>11 DEF Holding, Plain
  <1>12. CASE s = <<"setparent", "release">>
    BY <1>12 DEF Holding, Plain
  <1>13. CASE s = <<"set", "create", "tag", "release">>
    BY <1>13 DEF Holding, Plain
  <1>14. CASE s = <<"create", "tag", "release">>
    BY <1>14 DEF Holding, Plain
  <1> QED BY <1>1, <1>2, <1>3, <1>4, <1>5, <1>6, <1>7, <1>8, <1>9, <1>10, <1>11, <1>12, <1>13, <1>14 DEF Holding

\* A request that makes an image starts by taking the image's layer, and holds it from then on.
LEMMA FreshStep ==
  ASSUME NEW s \in Fresh
  PROVE  s # <<>> /\ Head(s) = "hold" /\ Tail(s) \in Holding
  <1>1. CASE s = Program["pull"]
    BY <1>1 DEF Fresh, Holding, Program
  <1>2. CASE s = Program["commit"]
    BY <1>2 DEF Fresh, Holding, Program
  <1>3. CASE s = Program["load"]
    BY <1>3 DEF Fresh, Holding, Program
  <1>4. CASE s = Program["import"]
    BY <1>4 DEF Fresh, Holding, Program
  <1> QED BY <1>1, <1>2, <1>3, <1>4 DEF Fresh

\* A build from the cache never comes to hold a layer.
LEMMA CachedStep ==
  ASSUME NEW s \in Cached
  PROVE  /\ s # <<>> /\ Head(s) \in {"set", "create", "setparent"}
         /\ Tail(s) \in Cached \cup {<<>>}
  <1>1. CASE s = <<"set", "create", "setparent">>
    BY <1>1 DEF Cached
  <1>2. CASE s = <<"create", "setparent">>
    BY <1>2 DEF Cached
  <1>3. CASE s = <<"setparent">>
    BY <1>3 DEF Cached
  <1> QED BY <1>1, <1>2, <1>3 DEF Cached

\* A request that deletes or tags goes on to delete or tag: it never takes a layer.
LEMMA PlainStep ==
  ASSUME NEW s \in Plain, s # <<>>
  PROVE  /\ Head(s) \in {"digest", "tag", "untag", "rest", "check", "all", "delete"}
         /\ Tail(s) \in Plain
  <1>1. CASE s = <<"digest", "tag">>
    BY <1>1 DEF Plain
  <1>2. CASE s = <<"tag">>
    BY <1>2 DEF Plain
  <1>3. CASE s = <<"untag", "rest">>
    BY <1>3 DEF Plain
  <1>4. CASE s = <<"rest">>
    BY <1>4 DEF Plain
  <1>5. CASE s = <<"untag", "check">>
    BY <1>5 DEF Plain
  <1>6. CASE s = <<"check">>
    BY <1>6 DEF Plain
  <1>7. CASE s = <<"untag">>
    BY <1>7 DEF Plain
  <1>8. CASE s = <<"all">>
    BY <1>8 DEF Plain
  <1>9. CASE s = <<"untag", "delete">>
    BY <1>9 DEF Plain
  <1>10. CASE s = <<"delete">>
    BY <1>10 DEF Plain
  <1> QED BY <1>1, <1>2, <1>3, <1>4, <1>5, <1>6, <1>7, <1>8, <1>9, <1>10 DEF Plain

\* A deletion removes the image's files, then releases its layer, and is over.
LEMMA DeletingStep ==
  ASSUME NEW s \in Deleting
  PROVE  /\ s # <<>> /\ Head(s) \in {"fsdelete", "lrelease"}
         /\ Head(s) = "fsdelete" => Tail(s) = <<"lrelease">>
  <1>1. CASE s = <<"fsdelete", "lrelease">>
    BY <1>1 DEF Deleting
  <1>2. CASE s = <<"lrelease">>
    BY <1>2 DEF Deleting
  <1> QED BY <1>1, <1>2 DEF Deleting

\* A container gets its writable layer, then is registered.
LEMMA MakingStep ==
  ASSUME NEW s \in Making
  PROVE  /\ s # <<>> /\ Head(s) \in {"rwlayer", "register"}
         /\ Head(s) = "rwlayer" => Tail(s) = <<"register">>
         /\ Head(s) = "register" => Tail(s) = <<>>
  <1>1. CASE s = <<"rwlayer", "register">>
    BY <1>1 DEF Making
  <1>2. CASE s = <<"register">>
    BY <1>2 DEF Making
  <1> QED BY <1>1, <1>2 DEF Making
-------------------------------------------------------------------------------
(* Requests                                                                    *)

Dos == {"idle", "pull", "commit", "load", "import", "cache", "tag", "rmi", "prune", "container"}
Ops == [do : Dos, todo : Todos, i : Images \cup {NoImage}, r : SUBSET Refs, c : SUBSET Containers,
        holds : BOOLEAN, force : BOOLEAN, deep : BOOLEAN, up : Images \cup {NoImage},
        rs : SUBSET Refs, names : SUBSET Refs]

\* A request is about an image, holds its layer exactly while a release is ahead, and names
\* a container while it makes one, or when it is over.
OpOK(o) ==
  /\ o \in Ops
  /\ o.todo # <<>> => o.i \in Images
  /\ o.holds <=> o.todo \in Holding
  /\ o.todo \in Cached => "cache" \in Requests
  /\ o.todo \in Making => o.names = {}
  /\ o.c # {} => o.todo \in Making \/ (o.todo = <<>> /\ o.names = {})

OpsOK == op \in [Procs -> Ops] /\ \A p \in Procs : OpOK(op[p])

\* The lists of steps are told apart by their first steps.
LEMMA Apart ==
  /\ <<>> \notin Holding \cup Fresh \cup Cached \cup Deleting \cup Making
  /\ <<>> \in Plain
  /\ <<"release">> \in Holding /\ <<"lrelease">> \in Deleting /\ <<"register">> \in Making
  /\ \A s \in Todos : s \in Deleting <=> s # <<>> /\ Head(s) \in {"fsdelete", "lrelease"}
  /\ \A s \in Todos : s \in Making <=> s # <<>> /\ Head(s) \in {"rwlayer", "register"}
  /\ \A s \in Todos : s \in Fresh <=> s # <<>> /\ Head(s) = "hold"
  /\ \A s \in Plain : s \notin Holding /\ s \notin Cached
  /\ \A s \in Holding : s \notin Cached
  <1>1. <<>> \notin Holding \cup Fresh \cup Cached \cup Deleting \cup Making
    BY HoldingStep, FreshStep, CachedStep, DeletingStep, MakingStep
  <1>2. <<>> \in Plain /\ <<"release">> \in Holding /\ <<"lrelease">> \in Deleting /\ <<"register">> \in Making
    BY DEF Plain, Holding, Deleting, Making
  <1>3. \A s \in Todos : s # <<>> =>
          \/ s \in Holding /\ Head(s) \in {"set", "create", "release", "tag", "setparent"}
          \/ s \in Fresh /\ Head(s) = "hold"
          \/ s \in Cached /\ Head(s) \in {"set", "create", "setparent"}
          \/ s \in Plain /\ Head(s) \in {"digest", "tag", "untag", "rest", "check", "all", "delete"}
          \/ s \in Deleting /\ Head(s) \in {"fsdelete", "lrelease"}
          \/ s \in Making /\ Head(s) \in {"rwlayer", "register"}
    BY HoldingStep, FreshStep, CachedStep, PlainStep, DeletingStep, MakingStep DEF Todos
  <1>4. \A s \in Todos : s \in Deleting <=> s # <<>> /\ Head(s) \in {"fsdelete", "lrelease"}
    BY <1>3, DeletingStep
  <1>5. \A s \in Todos : s \in Making <=> s # <<>> /\ Head(s) \in {"rwlayer", "register"}
    BY <1>3, MakingStep
  <1>6. \A s \in Todos : s \in Fresh <=> s # <<>> /\ Head(s) = "hold"
    BY <1>3, FreshStep
  <1>7. \A s \in Plain : s \notin Holding
    BY DEF Plain, Holding
  <1>8. \A s \in Plain : s \notin Cached
    BY DEF Plain, Cached
  <1>9. \A s \in Holding : s \notin Cached
    BY DEF Holding, Cached
  <1> QED BY <1>1, <1>2, <1>4, <1>5, <1>6, <1>7, <1>8, <1>9

\* Nothing to do is a request in order.
LEMMA IdleOK == OpOK(Idle) /\ Idle.todo = <<>> /\ ~Idle.holds /\ Idle.c = {} /\ Idle.names = {}
  <1>1. Idle.todo = <<>> /\ ~Idle.holds /\ Idle.c = {} /\ Idle.names = {}
    BY DEF Idle
  <1>2. <<>> \in Todos
    BY Apart DEF Todos
  <1>3. Idle \in Ops
    BY <1>2 DEF Idle, Ops, Dos
  <1> QED BY <1>1, <1>3, Apart DEF OpOK

\* Continue makes the request o, or none when nothing is left of it.
LEMMA ContinueOp ==
  ASSUME OpsOK, NEW p \in Procs, NEW o, OpOK(o), Continue(p, o)
  PROVE  \E n : /\ op' = [op EXCEPT ![p] = n] /\ OpOK(n)
                /\ n.todo = o.todo
                /\ o.todo # <<>> => n = o
                /\ n.c # {} => n.todo \in Making
                /\ n = Idle \/ n = o
  <1>1. CASE o.todo = <<>> /\ o.names = {}
    BY <1>1, IdleOK DEF Continue, Go
  <1>2. CASE ~(o.todo = <<>> /\ o.names = {})
    BY <1>2 DEF Continue, Go, OpOK
  <1> QED BY <1>1, <1>2

\* A step of p that changes neither what it holds nor what it deletes or makes.
Quiet(p, n) ==
  /\ op' = [op EXCEPT ![p] = n] /\ OpOK(n)
  /\ n.holds <=> op[p].holds
  /\ n.holds => n.i = op[p].i
  /\ op[p].todo \notin Deleting \cup Making
  /\ n.todo \notin Deleting \cup Making
  /\ n.c = {}

\* A step whose program goes on leaves an operation that is still in order, with one step less to do.
LEMMA QuietThen ==
  ASSUME OpsOK, NEW p \in Procs, NEW step \in {"set", "create", "setparent", "tag", "digest"},
         At(p, step), Then(p)
  PROVE  \E n : /\ Quiet(p, n)
                /\ n.todo = Tail(op[p].todo)
                /\ n.todo # <<>> => n.i = op[p].i
  <1> DEFINE o == [op[p] EXCEPT !.todo = Tail(@)]
  <1>1. OpOK(op[p]) /\ op[p] \in Ops /\ op[p].todo \in Todos
    BY DEF OpsOK, OpOK, Ops
  <1>2. op[p].todo # <<>> /\ Head(op[p].todo) = step
    BY DEF At
  <1>3. op[p].todo \in Holding \cup Cached \cup Plain /\ op[p].todo \notin Deleting \cup Making
    BY <1>1, <1>2, Apart DEF Todos
  <1>4. /\ op[p].todo \in Holding <=> Tail(op[p].todo) \in Holding
        /\ Tail(op[p].todo) \in Holding \cup Cached \cup Plain
        /\ Tail(op[p].todo) \in Cached => op[p].todo \in Cached
    <2>1. CASE op[p].todo \in Holding
      BY <1>2, <2>1, HoldingStep, Apart
    <2>2. CASE op[p].todo \in Cached
      BY <1>2, <2>2, CachedStep, Apart
    <2>3. CASE op[p].todo \in Plain
      BY <1>2, <2>3, PlainStep, Apart
    <2> QED BY <1>3, <2>1, <2>2, <2>3
  <1>5. Tail(op[p].todo) \in Todos /\ Tail(op[p].todo) \notin Deleting \cup Making
    <2>1. Tail(op[p].todo) \in Todos
      BY <1>4 DEF Todos
    <2> QED BY <2>1, <1>4, HoldingStep, CachedStep, PlainStep, Apart
  <1>6. /\ o \in Ops /\ o.todo = Tail(op[p].todo) /\ o.i = op[p].i /\ (o.holds <=> op[p].holds)
        /\ o.c = op[p].c /\ o.names = op[p].names
    BY <1>1, <1>5 DEF Ops
  <1>7. op[p].c = {} /\ op[p].i \in Images
    BY <1>1, <1>2, <1>3 DEF OpOK
  <1>8. OpOK(o)
    BY <1>1, <1>4, <1>5, <1>6, <1>7 DEF OpOK
  <1>9. Continue(p, o)
    BY DEF Then
  <1> HIDE DEF o
  <1>10. PICK n : /\ op' = [op EXCEPT ![p] = n] /\ OpOK(n) /\ n.todo = o.todo
                  /\ o.todo # <<>> => n = o
                  /\ n = Idle \/ n = o
    BY <1>8, <1>9, ContinueOp
  <1>11. (n.holds <=> op[p].holds) /\ n.c = {}
    BY <1>1, <1>4, <1>6, <1>7, <1>10, IdleOK DEF OpOK
  <1>12. n.holds => n.i = op[p].i
    BY <1>6, <1>10, IdleOK
  <1> QED BY <1>3, <1>5, <1>6, <1>10, <1>11, <1>12 DEF Quiet

\* A request that fails releases the layer it holds, if it holds one, and does nothing else:
\* a deletion or the making of a container is not resumed.
LEMMA AbortOp ==
  ASSUME OpsOK, NEW p \in Procs, op[p].todo # <<>>, Abort(p)
  PROVE  \E n : /\ op' = [op EXCEPT ![p] = n] /\ OpOK(n)
                /\ n.holds <=> op[p].holds
                /\ n.holds => n.i = op[p].i
                /\ n.todo = IF op[p].holds THEN <<"release">> ELSE <<>>
                /\ n.todo \notin Deleting \cup Making
                /\ n.c = {}
  <1> DEFINE left == IF op[p].holds THEN <<"release">> ELSE <<>>
             o == [op[p] EXCEPT !.todo = left, !.rs = {}]
  <1>1. OpOK(op[p]) /\ op[p] \in Ops /\ op[p].todo \in Todos
    BY DEF OpsOK, OpOK, Ops
  <1>2. left \in Todos /\ (left \in Holding <=> op[p].holds) /\ left \notin Cached \cup Deleting \cup Making
    <2>1. CASE op[p].holds
      <3>1. left = <<"release">>
        BY <2>1
      <3>2. left \in Holding /\ left \in Todos /\ left # <<>> /\ Head(left) = "release"
        BY <3>1, Apart DEF Todos
      <3> QED BY <2>1, <3>2, Apart
    <2>2. CASE ~op[p].holds
      BY <2>2, Apart DEF Todos
    <2> QED BY <2>1, <2>2
  <1>3. /\ o \in Ops /\ o.todo = left /\ o.i = op[p].i /\ (o.holds <=> op[p].holds)
        /\ o.c = op[p].c /\ o.names = op[p].names
    BY <1>1, <1>2 DEF Ops
  <1>4. op[p].i \in Images
    BY <1>1 DEF OpOK
  <1>5. op[p].holds => op[p].todo \notin Making
    BY <1>1, Apart, HoldingStep DEF OpOK
  <1>6. op[p].c # {} => ~op[p].holds /\ op[p].names = {}
    BY <1>1, <1>5 DEF OpOK
  <1>7. OpOK(o)
    <2>1. o.c # {} => o.todo = <<>> /\ o.names = {}
      BY <1>3, <1>6
    <2>2. o.holds <=> o.todo \in Holding
      BY <1>2, <1>3
    <2>3. o.todo \notin Cached /\ o.todo \notin Making
      BY <1>2, <1>3
    <2>4. o.i \in Images
      BY <1>3, <1>4
    <2> QED BY <2>1, <2>2, <2>3, <2>4, <1>3 DEF OpOK
  <1>8. Continue(p, o)
    BY DEF Abort
  <1> HIDE DEF o
  <1>9. PICK n : /\ op' = [op EXCEPT ![p] = n] /\ OpOK(n) /\ n.todo = o.todo
                 /\ o.todo # <<>> => n = o
                 /\ n.c # {} => n.todo \in Making
                 /\ n = Idle \/ n = o
    BY <1>7, <1>8, ContinueOp
  <1>10. n.holds <=> op[p].holds
    BY <1>2, <1>3, <1>9 DEF OpOK
  <1>11. n.holds => n.i = op[p].i
    BY <1>3, <1>9, IdleOK
  <1>12. n.todo = left /\ n.todo \notin Deleting \cup Making /\ n.c = {}
    BY <1>2, <1>3, <1>9
  <1> QED BY <1>9, <1>10, <1>11, <1>12

\* Failing outside of a deletion and of the making of a container moves no layer.
LEMMA QuietAbort ==
  ASSUME OpsOK, NEW p \in Procs, op[p].todo # <<>>, op[p].todo \notin Deleting \cup Making, Abort(p)
  PROVE  \E n : Quiet(p, n) /\ (n.todo = <<>> \/ Head(n.todo) = "release")
  <1>1. PICK n : /\ op' = [op EXCEPT ![p] = n] /\ OpOK(n)
                 /\ n.holds <=> op[p].holds
                 /\ n.holds => n.i = op[p].i
                 /\ n.todo = IF op[p].holds THEN <<"release">> ELSE <<>>
                 /\ n.todo \notin Deleting \cup Making
                 /\ n.c = {}
    BY AbortOp
  <1>2. n.todo = <<>> \/ Head(n.todo) = "release"
    BY <1>1
  <1> QED BY <1>1, <1>2 DEF Quiet

\* A request without a layer goes on as o, which holds none either.
LEMMA QuietGoesOn ==
  ASSUME OpsOK, NEW p \in Procs, ~op[p].holds, op[p].todo \notin Deleting \cup Making,
         NEW o, OpOK(o), ~o.holds, o.todo \notin Deleting \cup Making, Continue(p, o)
  PROVE  \E n : Quiet(p, n) /\ n.todo = o.todo /\ ~n.holds
  <1>1. PICK n : /\ op' = [op EXCEPT ![p] = n] /\ OpOK(n) /\ n.todo = o.todo
                 /\ n.c # {} => n.todo \in Making
                 /\ n = Idle \/ n = o
    BY ContinueOp
  <1>2. ~n.holds
    BY <1>1 DEF OpOK
  <1> QED BY <1>1, <1>2 DEF Quiet
-------------------------------------------------------------------------------
(* The steps that are quiet                                                    *)

\* The five kinds of lists of steps have nothing in common: what is left to do tells whether
\* the request holds a layer.
LEMMA PlainApart ==
  ASSUME NEW s \in Plain
  PROVE  s \in Todos /\ s \notin Holding /\ s \notin Cached /\ s \notin Deleting /\ s \notin Making
  <1>1. s \in Todos
    BY DEF Todos
  <1>2. s # <<>> => Head(s) \in {"digest", "tag", "untag", "rest", "check", "all", "delete"}
    BY PlainStep
  <1> QED BY <1>1, <1>2, Apart

\* A request whose next step is one of a deletion holds nothing.
LEMMA DeletesPlainly ==
  ASSUME OpsOK, NEW p \in Procs, NEW step \in {"untag", "rest", "check", "all", "delete"}, At(p, step)
  PROVE  /\ op[p] \in Ops /\ OpOK(op[p]) /\ op[p].todo \in Plain /\ op[p].todo # <<>>
         /\ ~op[p].holds /\ op[p].c = {} /\ op[p].i \in Images
         /\ op[p].todo \notin Deleting \cup Making
  <1>1. OpOK(op[p]) /\ op[p] \in Ops /\ op[p].todo \in Todos
    BY DEF OpsOK, OpOK, Ops
  <1>2. op[p].todo # <<>> /\ Head(op[p].todo) = step
    BY DEF At
  <1>3. op[p].todo \in Plain
    <2>1. op[p].todo \notin Holding
      BY <1>2, HoldingStep
    <2>2. op[p].todo \notin Cached
      BY <1>2, CachedStep
    <2>3. op[p].todo \notin Fresh /\ op[p].todo \notin Deleting /\ op[p].todo \notin Making
      BY <1>1, <1>2, Apart
    <2> QED BY <2>1, <2>2, <2>3, <1>1 DEF Todos
  <1> QED BY <1>1, <1>2, <1>3, PlainApart DEF OpOK

\* Changing what a deletion is about, and its steps to others of a deletion, keeps it in order.
LEMMA RequestInOrder ==
  ASSUME NEW o \in Ops, ~o.holds, o.c = {}, o.todo \in Plain, o.todo # <<>> => o.i \in Images
  PROVE  OpOK(o) /\ o.todo \notin Deleting \cup Making
  BY PlainApart DEF OpOK

\* imageDeleteByRef leaves an operation in order: the first checks of ImageDelete when a
\* reference is given.
LEMMA DeleteByRefOp ==
  ASSUME NEW o \in Ops, ~o.holds, o.c = {}, NEW r \in Refs, refs[r] \in Images, NEW force \in BOOLEAN
  PROVE  LET d == DeleteByRef(o, r, force)
         IN  OpOK(d) /\ ~d.holds /\ d.todo \notin Deleting \cup Making
  <1> DEFINE d == DeleteByRef(o, r, force)
  <1>1. <<>> \in Plain /\ <<"untag", "rest">> \in Plain
    BY DEF Plain
  <1>2. <<>> \in Todos /\ <<"untag", "rest">> \in Todos
    BY <1>1 DEF Todos
  <1>3. d \in Ops /\ ~d.holds /\ d.c = {} /\ d.todo \in Plain /\ (d.todo # <<>> => d.i \in Images)
    <2>1. CASE d = [o EXCEPT !.todo = <<>>, !.rs = {}]
      BY <2>1, <1>1, <1>2 DEF Ops
    <2>2. CASE d = [o EXCEPT !.i = refs[r], !.r = {r}, !.rs = {r}, !.force = force, !.deep = FALSE,
                   !.todo = <<"untag", "rest">>]
      <3>1. {r} \in SUBSET Refs
        OBVIOUS
      <3>2. d \in Ops
        BY <2>2, <3>1, <1>2 DEF Ops
      <3>3. (d.holds <=> o.holds) /\ d.c = o.c /\ d.todo = <<"untag", "rest">> /\ d.i = refs[r]
        BY <2>2 DEF Ops
      <3> QED BY <3>2, <3>3, <1>1
    <2> QED BY <2>1, <2>2 DEF DeleteByRef
  <1> HIDE DEF d
  <1> QED BY <1>3, RequestInOrder DEF d

\* The same when an image ID is given.
LEMMA DeleteByIDOp ==
  ASSUME NEW o \in Ops, ~o.holds, o.c = {}, NEW i \in Images, byID[i] \in SUBSET Refs, NEW force \in BOOLEAN
  PROVE  LET d == DeleteByID(o, i, force)
         IN  OpOK(d) /\ ~d.holds /\ d.todo \notin Deleting \cup Making
  <1> DEFINE d == DeleteByID(o, i, force)
  <1>1. <<>> \in Plain /\ <<"untag", "check">> \in Plain /\ <<"check">> \in Plain
    BY DEF Plain
  <1>2. <<>> \in Todos /\ <<"untag", "check">> \in Todos /\ <<"check">> \in Todos
    BY <1>1 DEF Todos
  <1>3. d \in Ops /\ ~d.holds /\ d.c = {} /\ d.todo \in Plain /\ (d.todo # <<>> => d.i \in Images)
    <2>1. CASE d = [o EXCEPT !.todo = <<>>, !.rs = {}]
      BY <2>1, <1>1, <1>2 DEF Ops
    <2>2. CASE d = [o EXCEPT !.i = i, !.rs = byID[i], !.force = force, !.deep = FALSE,
                          !.todo = <<"untag", "check">>]
      BY <2>2, <1>1, <1>2 DEF Ops
    <2>3. CASE d = [o EXCEPT !.i = i, !.rs = {}, !.force = force, !.deep = FALSE, !.todo = <<"check">>]
      BY <2>3, <1>1, <1>2 DEF Ops
    <2> QED BY <2>1, <2>2, <2>3 DEF DeleteByID
  <1> HIDE DEF d
  <1> QED BY <1>3, RequestInOrder DEF d

\* A client's request.
LEMMA RequestOp ==
  ASSUME OpsOK, NEW p \in Procs, Request(p)
  PROVE  \E n : Quiet(p, n) /\ (n.todo # <<>> => Head(n.todo) # "create")
  <1>1. PICK do \in Requests \cap DOMAIN Program, i \in Images, r \in Named :
          op' = [op EXCEPT ![p] = [Idle EXCEPT !.do = do, !.todo = Program[do], !.i = i, !.r = r]]
    BY ZenonT(60) DEF Request, Go
  <1> DEFINE n == [Idle EXCEPT !.do = do, !.todo = Program[do], !.i = i, !.r = r]
  <1>2. do \in {"pull", "commit", "load", "import", "cache", "tag"}
    BY DEF Program
  <1>3. /\ Program["cache"] = <<"set", "create", "setparent">> /\ Program["tag"] = <<"tag">>
        /\ Program["cache"] \in Cached /\ Program["tag"] \in Plain
    BY DEF Program, Cached, Plain
  <1>4. /\ Program[do] \in Fresh \cup Cached \cup Plain
        /\ Program[do] \in Cached => "cache" \in Requests
    <2>1. CASE do = "cache"
      BY <2>1, <1>3
    <2>2. CASE do = "tag"
      BY <2>2, <1>3, Apart
    <2>3. CASE do \in {"pull", "commit", "load", "import"}
      <3>1. Program[do] \in Fresh
        BY <2>3 DEF Fresh
      <3>2. Program[do] \notin Cached
        BY <3>1, FreshStep, CachedStep
      <3> QED BY <3>1, <3>2
    <2> QED BY <1>2, <2>1, <2>2, <2>3
  <1>5. Program[do] \in Todos /\ Program[do] \notin Holding /\ Program[do] \notin Deleting \cup Making
    <2>1. Program[do] \in Todos
      BY <1>4 DEF Todos
    <2>2. CASE Program[do] \in Fresh
      BY <2>1, <2>2, FreshStep, HoldingStep, Apart
    <2>3. CASE Program[do] \in Cached
      BY <2>1, <2>3, CachedStep, Apart
    <2>4. CASE Program[do] \in Plain
      BY <2>4, PlainApart
    <2> QED BY <1>4, <2>2, <2>3, <2>4
  <1>6. r \in SUBSET Refs
    BY RefsAssumption
  <1>7. Idle \in Ops
    BY IdleOK DEF OpOK
  <1>8. /\ n \in Ops /\ n.todo = Program[do] /\ n.i = i /\ n.c = {} /\ ~n.holds /\ n.names = {}
    <2>1. do \in Dos
      BY <1>2 DEF Dos
    <2>2. n \in Ops
      BY <2>1, <1>5, <1>6, <1>7 DEF Ops
    <2>3. n.todo = Program[do] /\ n.i = i /\ n.c = Idle.c /\ (n.holds <=> Idle.holds) /\ n.names = Idle.names
      BY <1>7 DEF Ops
    <2> QED BY <2>2, <2>3, IdleOK
  <1> HIDE DEF n
  <1>9. OpOK(n)
    BY <1>4, <1>5, <1>8 DEF OpOK
  <1>10. op[p] = Idle
    BY DEF Request
  <1>11. Idle.todo \notin Deleting \cup Making
    BY IdleOK, Apart
  <1>12. Quiet(p, n)
    BY <1>1, <1>5, <1>8, <1>9, <1>10, <1>11, IdleOK DEF Quiet, n
  <1>13. Head(Program[do]) # "create"
    BY <1>2 DEF Program
  <1> QED BY <1>8, <1>12, <1>13

\* Joining two lists of one step.
LEMMA JoinTwo ==
  ASSUME NEW u, NEW v
  PROVE  <<u>> \o <<v>> = <<u, v>>
  <1> DEFINE S == {u, v}
  <1>1. <<u>> \in Seq(S) /\ <<v>> \in Seq(S) /\ <<u, v>> \in Seq(S)
    OBVIOUS
  <1>2. Len(<<u>>) = 1 /\ Len(<<v>>) = 1 /\ Len(<<u, v>>) = 2
    OBVIOUS
  <1>3. Len(<<u>> \o <<v>>) = 2 /\ <<u>> \o <<v>> \in Seq(S)
    BY <1>1, <1>2, ConcatProperties
  <1>4. (<<u>> \o <<v>>)[1] = u /\ (<<u>> \o <<v>>)[2] = v
    BY <1>1, <1>2, ConcatProperties
  <1>5. \A i \in 1 .. 2 : (<<u>> \o <<v>>)[i] = <<u, v>>[i]
    BY <1>4
  <1> QED BY <1>1, <1>2, <1>3, <1>5, SeqEqual

\* The steps of rmi and prune that decide, or take references away.
LEMMA ImageDeleteOp ==
  ASSUME TypeOK, OpsOK, NEW p \in Procs, ImageDelete(p)
  PROVE  \E n : Quiet(p, n) /\ ~n.holds
  <1> DEFINE o == [Idle EXCEPT !.do = "rmi"]
  <1>1. o \in Ops /\ ~o.holds /\ o.c = {}
    BY IdleOK DEF OpOK, Ops, Dos
  <1>2. op[p] = Idle /\ ~op[p].holds /\ op[p].todo \notin Deleting \cup Making
    BY IdleOK, Apart DEF ImageDelete
  <1>3. PICK force \in BOOLEAN :
          \/ \E r \in Refs : refs[r] # NoImage /\ Continue(p, DeleteByRef(o, r, force))
          \/ \E i \in content : Continue(p, DeleteByID(o, i, force))
    BY DEF ImageDelete
  <1> HIDE DEF o
  <1>4. CASE \E r \in Refs : refs[r] # NoImage /\ Continue(p, DeleteByRef(o, r, force))
    <2>1. PICK r \in Refs : refs[r] # NoImage /\ Continue(p, DeleteByRef(o, r, force))
      BY <1>4
    <2>2. refs[r] \in Images
      BY <2>1 DEF TypeOK
    <2>3. /\ OpOK(DeleteByRef(o, r, force)) /\ ~DeleteByRef(o, r, force).holds
          /\ DeleteByRef(o, r, force).todo \notin Deleting \cup Making
      BY <1>1, <2>2, DeleteByRefOp
    <2> QED BY <1>2, <2>1, <2>3, QuietGoesOn
  <1>5. CASE \E i \in content : Continue(p, DeleteByID(o, i, force))
    <2>1. PICK i \in content : Continue(p, DeleteByID(o, i, force))
      BY <1>5
    <2>2. i \in Images /\ byID[i] \in SUBSET Refs
      BY DEF TypeOK
    <2>3. /\ OpOK(DeleteByID(o, i, force)) /\ ~DeleteByID(o, i, force).holds
          /\ DeleteByID(o, i, force).todo \notin Deleting \cup Making
      BY <1>1, <2>2, DeleteByIDOp
    <2> QED BY <1>2, <2>1, <2>3, QuietGoesOn
  <1> QED BY <1>3, <1>4, <1>5

\* Removing a reference for an image's deletion moves no layer.
LEMMA RemoveRefOp ==
  ASSUME TypeOK, OpsOK, NEW p \in Procs, RemoveRef(p)
  PROVE  \E n : Quiet(p, n) /\ ~n.holds
  <1>1. At(p, "untag")
    BY DEF RemoveRef
  <1>2. /\ op[p] \in Ops /\ OpOK(op[p]) /\ op[p].todo \in Plain /\ op[p].todo # <<>>
        /\ ~op[p].holds /\ op[p].c = {} /\ op[p].i \in Images
        /\ op[p].todo \notin Deleting \cup Making
    BY <1>1, DeletesPlainly
  <1>3. CASE Abort(p)
    BY <1>2, <1>3, QuietAbort DEF Quiet
  <1>4. ASSUME NEW r \in op[p].rs,
               Continue(p, [op[p] EXCEPT !.rs = @ \ {r}, !.todo = IF op[p].rs = {r} THEN Tail(@) ELSE @])
        PROVE  \E n : Quiet(p, n) /\ ~n.holds
    <2> DEFINE left == IF op[p].rs = {r} THEN Tail(op[p].todo) ELSE op[p].todo
               o == [op[p] EXCEPT !.rs = @ \ {r}, !.todo = IF op[p].rs = {r} THEN Tail(@) ELSE @]
    <2>1. left \in Plain /\ left \in Todos
      <3>1. Tail(op[p].todo) \in Plain
        BY <1>2, PlainStep
      <3> QED BY <1>2, <3>1, PlainApart
    <2>2. o \in Ops /\ o.todo = left /\ o.i = op[p].i /\ (o.holds <=> op[p].holds) /\ o.c = op[p].c
      BY <1>2, <2>1 DEF Ops
    <2> HIDE DEF o, left
    <2>3. OpOK(o) /\ o.todo \notin Deleting \cup Making
      BY <1>2, <2>1, <2>2, RequestInOrder
    <2>4. Continue(p, o)
      BY <1>4 DEF o
    <2> QED BY <1>2, <2>2, <2>3, <2>4, QuietGoesOn
  <1> QED BY <1>3, <1>4 DEF RemoveRef

\* Looking for the references that are left moves no layer.
LEMMA RemoveRestOp ==
  ASSUME TypeOK, OpsOK, NEW p \in Procs, RemoveRest(p)
  PROVE  \E n : Quiet(p, n) /\ ~n.holds
  <1>1. At(p, "rest")
    BY DEF RemoveRest
  <1>2. /\ op[p] \in Ops /\ OpOK(op[p]) /\ op[p].todo \in Plain /\ op[p].todo # <<>>
        /\ ~op[p].holds /\ op[p].c = {} /\ op[p].i \in Images
        /\ op[p].todo \notin Deleting \cup Making
    BY <1>1, DeletesPlainly
  <1>3. byID[op[p].i] \in SUBSET Refs
    BY <1>2 DEF TypeOK
  <1>4. PICK digests \in SUBSET byID[op[p].i], rest \in {<<"check">>, <<>>} :
          Continue(p, [op[p] EXCEPT !.rs = digests, !.r = {}, !.todo = Untag(digests) \o rest])
    BY DEF RemoveRest
  <1> DEFINE left == Untag(digests) \o rest
             o == [op[p] EXCEPT !.rs = digests, !.r = {}, !.todo = left]
  <1>5. left \in Plain
    <2>1. /\ <<"untag">> \o <<"check">> = <<"untag", "check">>
          /\ <<>> \o <<"check">> = <<"check">>
      <3>1. <<"check">> \in Seq({"check"})
        OBVIOUS
      <3>2. <<>> \o <<"check">> = <<"check">>
        BY <3>1, ConcatEmptySeq
      <3>3. <<"untag">> \o <<"check">> = <<"untag", "check">>
        BY JoinTwo
      <3> QED BY <3>2, <3>3
    <2>2. <<"untag">> \o <<>> = <<"untag">> /\ <<>> \o <<>> = <<>>
      OBVIOUS
    <2>3. left \in {<<"untag", "check">>, <<"check">>, <<"untag">>, <<>>}
      BY <2>1, <2>2 DEF Untag
    <2> QED BY <2>3 DEF Plain
  <1>6. left \in Todos
    BY <1>5 DEF Todos
  <1> HIDE DEF left
  <1>7. o \in Ops /\ o.todo = left /\ o.i = op[p].i /\ (o.holds <=> op[p].holds) /\ o.c = op[p].c
    BY <1>2, <1>3, <1>6 DEF Ops
  <1>8. Continue(p, o)
    BY <1>4 DEF left
  <1> HIDE DEF o
  <1>9. OpOK(o) /\ o.todo \notin Deleting \cup Making
    BY <1>2, <1>5, <1>7, RequestInOrder
  <1> QED BY <1>2, <1>7, <1>8, <1>9, QuietGoesOn

\* Checking for conflicts moves no layer: the deletion itself is still to come.
LEMMA CheckConflictOp ==
  ASSUME TypeOK, OpsOK, NEW p \in Procs, CheckConflict(p)
  PROVE  \E n : Quiet(p, n) /\ ~n.holds
  <1>1. At(p, "check")
    BY DEF CheckConflict
  <1>2. /\ op[p] \in Ops /\ OpOK(op[p]) /\ op[p].todo \in Plain /\ op[p].todo # <<>>
        /\ ~op[p].holds /\ op[p].c = {} /\ op[p].i \in Images
        /\ op[p].todo \notin Deleting \cup Making
    BY <1>1, DeletesPlainly
  <1>3. CASE Abort(p)
    BY <1>2, <1>3, QuietAbort DEF Quiet
  <1>4. CASE Continue(p, [op[p] EXCEPT !.todo = <<"all">>, !.force = FALSE])
    <2> DEFINE o == [op[p] EXCEPT !.todo = <<"all">>, !.force = FALSE]
    <2>1. <<"all">> \in Plain
      BY DEF Plain
    <2>2. <<"all">> \in Todos
      BY <2>1 DEF Todos
    <2>3. o \in Ops /\ o.todo = <<"all">> /\ o.i = op[p].i /\ (o.holds <=> op[p].holds) /\ o.c = op[p].c
      BY <1>2, <2>2 DEF Ops
    <2> HIDE DEF o
    <2>4. OpOK(o) /\ o.todo \notin Deleting \cup Making
      BY <1>2, <2>1, <2>3, RequestInOrder
    <2>5. Continue(p, o)
      BY <1>4 DEF o
    <2> QED BY <1>2, <2>3, <2>4, <2>5, QuietGoesOn
  <1> QED BY <1>3, <1>4 DEF CheckConflict

\* Collecting all references of an image moves no layer.
LEMMA AllReferencesOp ==
  ASSUME TypeOK, OpsOK, NEW p \in Procs, AllReferences(p)
  PROVE  \E n : Quiet(p, n) /\ ~n.holds
  <1>1. At(p, "all")
    BY DEF AllReferences
  <1>2. /\ op[p] \in Ops /\ OpOK(op[p]) /\ op[p].todo \in Plain /\ op[p].todo # <<>>
        /\ ~op[p].holds /\ op[p].c = {} /\ op[p].i \in Images
        /\ op[p].todo \notin Deleting \cup Making
    BY <1>1, DeletesPlainly
  <1>3. byID[op[p].i] \in SUBSET Refs /\ GetParent(op[p].i) \in Images \cup {NoImage}
    BY <1>2 DEF TypeOK, GetParent
  <1> DEFINE left == Untag(byID[op[p].i]) \o <<"delete">>
             o == [op[p] EXCEPT !.up = GetParent(op[p].i), !.rs = byID[op[p].i], !.todo = left]
  <1>4. left \in Plain
    <2>1. <<"untag">> \o <<"delete">> = <<"untag", "delete">>
      BY JoinTwo
    <2>2. <<>> \o <<"delete">> = <<"delete">>
      <3>1. <<"delete">> \in Seq({"delete"})
        OBVIOUS
      <3> QED BY <3>1, ConcatEmptySeq
    <2>3. left \in {<<"untag", "delete">>, <<"delete">>}
      BY <2>1, <2>2 DEF Untag
    <2> QED BY <2>3 DEF Plain
  <1>5. left \in Todos
    BY <1>4 DEF Todos
  <1>6. Continue(p, o)
    BY DEF AllReferences
  <1> HIDE DEF left
  <1>7. o \in Ops /\ o.todo = left /\ o.i = op[p].i /\ (o.holds <=> op[p].holds) /\ o.c = op[p].c
    BY <1>2, <1>3, <1>5 DEF Ops
  <1> HIDE DEF o
  <1>8. OpOK(o) /\ o.todo \notin Deleting \cup Making
    BY <1>2, <1>4, <1>7, RequestInOrder
  <1> QED BY <1>2, <1>6, <1>7, <1>8, QuietGoesOn

\* A prune that picks its next image moves no layer.
LEMMA ImagesPruneOp ==
  ASSUME TypeOK, OpsOK, NEW p \in Procs, ImagesPrune(p)
  PROVE  \E n : Quiet(p, n) /\ ~n.holds
  <1>1. op[p] = Idle /\ ~op[p].holds /\ op[p].todo \notin Deleting \cup Making
    BY IdleOK, Apart DEF ImagesPrune
  <1> DEFINE o == [Idle EXCEPT !.do = "prune"]
  <1>2. o \in Ops /\ ~o.holds /\ o.c = {}
    BY IdleOK DEF OpOK, Ops, Dos
  <1>3. PICK i \in images \cap content :
          \/ Continue(p, [Idle EXCEPT !.do = "prune", !.names = byID[i]])
          \/ Continue(p, DeleteByID(o, i, FALSE))
    BY DEF ImagesPrune
  <1>4. i \in Images /\ byID[i] \in SUBSET Refs
    BY DEF TypeOK
  <1>5. CASE Continue(p, [Idle EXCEPT !.do = "prune", !.names = byID[i]])
    <2> DEFINE n == [Idle EXCEPT !.do = "prune", !.names = byID[i]]
    <2>1. n \in Ops /\ n.todo = Idle.todo /\ (n.holds <=> Idle.holds) /\ n.c = Idle.c
      BY <1>4, IdleOK DEF OpOK, Ops, Dos
    <2>2. Continue(p, n)
      BY <1>5
    <2> HIDE DEF n
    <2>3. OpOK(n) /\ n.todo \notin Deleting \cup Making
      BY <2>1, IdleOK, Apart, RequestInOrder
    <2> QED BY <1>1, <2>1, <2>2, <2>3, IdleOK, QuietGoesOn
  <1> HIDE DEF o
  <1>6. CASE Continue(p, DeleteByID(o, i, FALSE))
    <2>1. /\ OpOK(DeleteByID(o, i, FALSE)) /\ ~DeleteByID(o, i, FALSE).holds
          /\ DeleteByID(o, i, FALSE).todo \notin Deleting \cup Making
      BY <1>2, <1>4, DeleteByIDOp
    <2> QED BY <1>1, <1>6, <2>1, QuietGoesOn
  <1> QED BY <1>3, <1>5, <1>6

\* A prune that goes through the references of its image moves no layer.
LEMMA PruneRefOp ==
  ASSUME TypeOK, OpsOK, NEW p \in Procs, PruneRef(p)
  PROVE  \E n : Quiet(p, n) /\ ~n.holds
  <1>1. PICK r \in op[p].names :
          Continue(p, IF refs[r] # NoImage THEN DeleteByRef([op[p] EXCEPT !.names = @ \ {r}], r, FALSE)
                                           ELSE [op[p] EXCEPT !.names = @ \ {r}])
    BY DEF PruneRef
  <1> DEFINE o == [op[p] EXCEPT !.names = @ \ {r}]
  <1>2. OpOK(op[p]) /\ op[p] \in Ops /\ op[p].todo = <<>> /\ r \in Refs
    BY DEF OpsOK, OpOK, Ops, PruneRef
  <1>3. ~op[p].holds /\ op[p].todo \notin Deleting \cup Making /\ op[p].c = {}
    BY <1>1, <1>2, Apart DEF OpOK
  <1>4. o \in Ops /\ o.todo = <<>> /\ (o.holds <=> op[p].holds) /\ o.c = op[p].c
    BY <1>2 DEF Ops
  <1>5. CASE refs[r] # NoImage
    <2>1. refs[r] \in Images
      BY <1>2, <1>5 DEF TypeOK
    <2>2. Continue(p, DeleteByRef(o, r, FALSE))
      BY <1>1, <1>5
    <2> HIDE DEF o
    <2>3. /\ OpOK(DeleteByRef(o, r, FALSE)) /\ ~DeleteByRef(o, r, FALSE).holds
          /\ DeleteByRef(o, r, FALSE).todo \notin Deleting \cup Making
      BY <1>2, <1>3, <1>4, <2>1, DeleteByRefOp
    <2> QED BY <1>3, <2>2, <2>3, QuietGoesOn
  <1>6. CASE refs[r] = NoImage
    <2>1. Continue(p, o)
      BY <1>1, <1>6
    <2> HIDE DEF o
    <2>2. OpOK(o) /\ o.todo \notin Deleting \cup Making
      BY <1>3, <1>4, Apart, RequestInOrder
    <2> QED BY <1>3, <1>4, <2>1, <2>2, QuietGoesOn
  <1> QED BY <1>5, <1>6
-------------------------------------------------------------------------------
(* The inductive invariant                                                     *)

\* The layer store keeps whole stacks, and the stack of every layer that is held.
LayersOK ==
  /\ \A l \in layers : Stack[l] \subseteq layers
  /\ \A l \in Layers : held[l] > 0 => Stack[l] \subseteq layers

\* A container has a layer of an image or none; a request makes at most one, of its own.
ContOK ==
  /\ \A c \in Containers : cont[c].img = NoImage <=> cont[c].st = "none"
  /\ \A p \in Procs : \A c \in op[p].c :
       /\ op[p].c = {c} /\ op[p].todo \in Making
       /\ At(p, "rwlayer") => cont[c].st = "none"
       /\ At(p, "register") => cont[c].st = "layer"
  /\ \A p, q \in Procs : p # q => op[p].c \cap op[q].c = {}
  /\ \A p \in Procs : op[p].todo \in Making => op[p].c # {}

\* While a deletion has the lock, its image is not in the store.
DelOK == \A p \in Procs : op[p].todo \in Deleting => op[p].i \notin images

\* fs.Delete of i has still to come.
FsDeleting(i) == \E p \in Procs : At(p, "fsdelete") /\ op[p].i = i

\* An image that names a parent on disk, and is not stray, has that parent in the store
\* and is one of its children; only between the two parts of its deletion is it not.
ParentsOK ==
  /\ \A i \in Images : parent[i] # NoImage => i \in content
  /\ \A i \in Images \ strayed : parent[i] # NoImage =>
       FsDeleting(i) \/ (parent[i] \in images /\ i \in children[parent[i]])

ImageInv ==
  TypeOK /\ OpsOK /\ RefsIndexed /\ ContOK /\ LayersOK /\ LayerRefsExact /\ DelOK /\ ParentsOK

\* Every configuration on disk belongs to an image in the store, or to one that is about to
\* leave the disk, or to one that a request is about to create and whose layer it holds.
ContentKept ==
  \A i \in content :
    \/ i \in images
    \/ FsDeleting(i)
    \/ \E p \in Procs : op[p].holds /\ At(p, "create") /\ op[p].i = i
-------------------------------------------------------------------------------
(* Counting the holders of a layer                                             *)

ImgHolders(l) == {i \in images : LayerOf[i] = l}
ContHolders(l) == {c \in Containers : cont[c] # NoCont /\ LayerOf[cont[c].img] = l}
ReqHolders(l) == {p \in Procs : op[p].holds /\ LayerOf[op[p].i] = l}
DelHolders(l) == {p \in Procs : op[p].todo \in Deleting /\ LayerOf[op[p].i] = l}

\* 1 when the layer of i is l.
One(l, i) == IF LayerOf[i] = l THEN 1 ELSE 0

Exact(l) == held[l] = Cardinality(ImgHolders(l)) + Cardinality(ContHolders(l))
                        + Cardinality(ReqHolders(l)) + Cardinality(DelHolders(l))

\* The property in terms of the four sets of holders.
LEMMA ExactIs ==
  ASSUME OpsOK
  PROVE  LayerRefsExact <=> \A l \in Layers : Exact(l)
  <1>1. \A p \in Procs : At(p, "fsdelete") \/ At(p, "lrelease") <=> op[p].todo \in Deleting
    BY Apart DEF At, OpsOK, Ops
  <1>2. \A l \in Layers : {p \in Procs : /\ At(p, "fsdelete") \/ At(p, "lrelease")
                                         /\ LayerOf[op[p].i] = l} = DelHolders(l)
    BY <1>1 DEF DelHolders
  <1> QED BY <1>2 DEF LayerRefsExact, Exact, ImgHolders, ContHolders, ReqHolders

\* Whoever refers to a layer can be counted: images, containers, requests and deletions.
LEMMA HoldersFinite ==
  ASSUME TypeOK, NEW l
  PROVE  /\ IsFiniteSet(ImgHolders(l)) /\ Cardinality(ImgHolders(l)) \in Nat
         /\ IsFiniteSet(ContHolders(l)) /\ Cardinality(ContHolders(l)) \in Nat
         /\ IsFiniteSet(ReqHolders(l)) /\ Cardinality(ReqHolders(l)) \in Nat
         /\ IsFiniteSet(DelHolders(l)) /\ Cardinality(DelHolders(l)) \in Nat
  <1>1. ImgHolders(l) \subseteq Images /\ ContHolders(l) \subseteq Containers
    BY DEF ImgHolders, ContHolders, TypeOK
  <1>2. ReqHolders(l) \subseteq Procs /\ DelHolders(l) \subseteq Procs
    BY DEF ReqHolders, DelHolders
  <1>3. /\ IsFiniteSet(ImgHolders(l)) /\ IsFiniteSet(ContHolders(l))
        /\ IsFiniteSet(ReqHolders(l)) /\ IsFiniteSet(DelHolders(l))
    BY <1>1, <1>2, FiniteAssumption, FS_Subset
  <1> QED BY <1>3, FS_CardinalityType

\* A step of p moves p between the holders.
LEMMA ReqCount ==
  ASSUME TypeOK, OpsOK, NEW p \in Procs, NEW n, op' = [op EXCEPT ![p] = n], NEW l
  PROVE  Cardinality(ReqHolders(l)') = Cardinality(ReqHolders(l))
           + (IF n.holds THEN One(l, n.i) ELSE 0) - (IF op[p].holds THEN One(l, op[p].i) ELSE 0)
  <1>1. op'[p] = n /\ \A q \in Procs : q # p => op'[q] = op[q]
    BY DEF OpsOK
  <1>2. IsFiniteSet(ReqHolders(l)) /\ Cardinality(ReqHolders(l)) \in Nat
    BY HoldersFinite
  <1>3. CASE n.holds /\ LayerOf[n.i] = l
    <2>1. ReqHolders(l)' = ReqHolders(l) \cup {p}
      BY <1>1, <1>3 DEF ReqHolders
    <2>2. p \in ReqHolders(l) <=> op[p].holds /\ LayerOf[op[p].i] = l
      BY DEF ReqHolders
    <2>3. Cardinality(ReqHolders(l) \cup {p}) =
            IF p \in ReqHolders(l) THEN Cardinality(ReqHolders(l)) ELSE Cardinality(ReqHolders(l)) + 1
      BY <1>2, FS_AddElement
    <2> QED BY <1>2, <1>3, <2>1, <2>2, <2>3 DEF One
  <1>4. CASE ~(n.holds /\ LayerOf[n.i] = l)
    <2>1. ReqHolders(l)' = ReqHolders(l) \ {p}
      BY <1>1, <1>4 DEF ReqHolders
    <2>2. p \in ReqHolders(l) <=> op[p].holds /\ LayerOf[op[p].i] = l
      BY DEF ReqHolders
    <2>3. Cardinality(ReqHolders(l) \ {p}) =
            IF p \in ReqHolders(l) THEN Cardinality(ReqHolders(l)) - 1 ELSE Cardinality(ReqHolders(l))
      BY <1>2, FS_RemoveElement
    <2> QED BY <1>2, <1>4, <2>1, <2>2, <2>3 DEF One
  <1> QED BY <1>3, <1>4

\* When one operation changes, the number of unfinished deletions of a layer changes by that
\* operation alone.
LEMMA DelCount ==
  ASSUME TypeOK, OpsOK, NEW p \in Procs, NEW n, op' = [op EXCEPT ![p] = n], NEW l
  PROVE  Cardinality(DelHolders(l)') = Cardinality(DelHolders(l))
           + (IF n.todo \in Deleting THEN One(l, n.i) ELSE 0)
           - (IF op[p].todo \in Deleting THEN One(l, op[p].i) ELSE 0)
  <1>1. op'[p] = n /\ \A q \in Procs : q # p => op'[q] = op[q]
    BY DEF OpsOK
  <1>2. IsFiniteSet(DelHolders(l)) /\ Cardinality(DelHolders(l)) \in Nat
    BY HoldersFinite
  <1>3. CASE n.todo \in Deleting /\ LayerOf[n.i] = l
    <2>1. DelHolders(l)' = DelHolders(l) \cup {p}
      BY <1>1, <1>3 DEF DelHolders
    <2>2. p \in DelHolders(l) <=> op[p].todo \in Deleting /\ LayerOf[op[p].i] = l
      BY DEF DelHolders
    <2>3. Cardinality(DelHolders(l) \cup {p}) =
            IF p \in DelHolders(l) THEN Cardinality(DelHolders(l)) ELSE Cardinality(DelHolders(l)) + 1
      BY <1>2, FS_AddElement
    <2> QED BY <1>2, <1>3, <2>1, <2>2, <2>3 DEF One
  <1>4. CASE ~(n.todo \in Deleting /\ LayerOf[n.i] = l)
    <2>1. DelHolders(l)' = DelHolders(l) \ {p}
      BY <1>1, <1>4 DEF DelHolders
    <2>2. p \in DelHolders(l) <=> op[p].todo \in Deleting /\ LayerOf[op[p].i] = l
      BY DEF DelHolders
    <2>3. Cardinality(DelHolders(l) \ {p}) =
            IF p \in DelHolders(l) THEN Cardinality(DelHolders(l)) - 1 ELSE Cardinality(DelHolders(l))
      BY <1>2, FS_RemoveElement
    <2> QED BY <1>2, <1>4, <2>1, <2>2, <2>3 DEF One
  <1> QED BY <1>3, <1>4

\* An image that comes or goes.
LEMMA ImgCount ==
  ASSUME TypeOK, NEW l, NEW i
  PROVE  /\ i \notin images /\ images' = images \cup {i} =>
              Cardinality(ImgHolders(l)') = Cardinality(ImgHolders(l)) + One(l, i)
         /\ i \in images /\ images' = images \ {i} =>
              Cardinality(ImgHolders(l)') = Cardinality(ImgHolders(l)) - One(l, i)
  <1>1. IsFiniteSet(ImgHolders(l)) /\ Cardinality(ImgHolders(l)) \in Nat
    BY HoldersFinite
  <1>2. CASE LayerOf[i] = l
    <2>1. i \notin images /\ images' = images \cup {i} =>
            ImgHolders(l)' = ImgHolders(l) \cup {i} /\ i \notin ImgHolders(l)
      BY <1>2 DEF ImgHolders
    <2>2. i \in images /\ images' = images \ {i} =>
            ImgHolders(l)' = ImgHolders(l) \ {i} /\ i \in ImgHolders(l)
      BY <1>2 DEF ImgHolders
    <2> QED BY <1>1, <1>2, <2>1, <2>2, FS_AddElement, FS_RemoveElement DEF One
  <1>3. CASE LayerOf[i] # l
    <2>1. (i \notin images /\ images' = images \cup {i}) \/ images' = images \ {i} => ImgHolders(l)' = ImgHolders(l)
      BY <1>3 DEF ImgHolders
    <2> QED BY <1>1, <1>3, <2>1 DEF One
  <1> QED BY <1>2, <1>3

\* A container that gets a layer, or is removed.
LEMMA ContCount ==
  ASSUME TypeOK, NEW l, NEW c \in Containers, DOMAIN cont' = Containers,
         \A k \in Containers : k # c => cont'[k] = cont[k]
  PROVE  /\ cont[c] = NoCont /\ cont'[c] # NoCont =>
              Cardinality(ContHolders(l)') = Cardinality(ContHolders(l)) + One(l, cont'[c].img)
         /\ cont[c] # NoCont /\ cont'[c] = NoCont =>
              Cardinality(ContHolders(l)') = Cardinality(ContHolders(l)) - One(l, cont[c].img)
  <1>1. IsFiniteSet(ContHolders(l)) /\ Cardinality(ContHolders(l)) \in Nat
    BY HoldersFinite
  <1>2. ASSUME cont[c] = NoCont, cont'[c] # NoCont
        PROVE  Cardinality(ContHolders(l)') = Cardinality(ContHolders(l)) + One(l, cont'[c].img)
    <2>1. c \notin ContHolders(l)
      BY <1>2 DEF ContHolders
    <2>2. CASE LayerOf[cont'[c].img] = l
      <3>1. ContHolders(l)' = ContHolders(l) \cup {c}
        BY <1>2, <2>2 DEF ContHolders, NoCont
      <3> QED BY <1>1, <2>1, <2>2, <3>1, FS_AddElement DEF One
    <2>3. CASE LayerOf[cont'[c].img] # l
      <3>1. ContHolders(l)' = ContHolders(l)
        BY <1>2, <2>3 DEF ContHolders, NoCont
      <3> QED BY <1>1, <2>3, <3>1 DEF One
    <2> QED BY <2>2, <2>3
  <1>3. ASSUME cont[c] # NoCont, cont'[c] = NoCont
        PROVE  Cardinality(ContHolders(l)') = Cardinality(ContHolders(l)) - One(l, cont[c].img)
    <2>1. c \in ContHolders(l) <=> LayerOf[cont[c].img] = l
      BY <1>3 DEF ContHolders
    <2>2. ContHolders(l)' = ContHolders(l) \ {c}
      BY <1>3 DEF ContHolders, NoCont
    <2>3. Cardinality(ContHolders(l) \ {c}) =
            IF c \in ContHolders(l) THEN Cardinality(ContHolders(l)) - 1 ELSE Cardinality(ContHolders(l))
      BY <1>1, FS_RemoveElement
    <2> QED BY <1>1, <2>1, <2>2, <2>3 DEF One
  <1> QED BY <1>2, <1>3
-------------------------------------------------------------------------------
(* What a step preserves                                                       *)

\* The layer store's promise: releasing a layer takes away none that is held.
LEMMA ReleaseKeepsLayers ==
  ASSUME TypeOK, LayersOK, NEW l \in Layers, held[l] > 0, Release(l)
  PROVE  /\ LayersOK' /\ layers' \in SUBSET Layers /\ held' \in [Layers -> Nat]
         /\ \A k \in Layers : held'[k] = IF k = l THEN held[k] - 1 ELSE held[k]
  <1>1. held \in [Layers -> Nat] /\ layers \in SUBSET Layers
    BY DEF TypeOK
  <1>2. \A k \in Layers : held'[k] = IF k = l THEN held[k] - 1 ELSE held[k]
    BY <1>1 DEF Release
  <1>3. held' \in [Layers -> Nat]
    BY <1>1 DEF Release
  <1>4. layers' = layers \ {k \in Stack[l] : \A m \in layers : k \in Stack[m] => m \in Stack[l] /\ held'[m] = 0}
    BY DEF Release, WithoutHolder
  <1>5. \A m \in Layers : m \in Stack[m] /\ Stack[m] \subseteq Layers
    BY LayerAssumption
  <1>6. \A m, n \in Layers : m \in Stack[n] => Stack[m] \subseteq Stack[n]
    BY LayerAssumption
  <1>7. ASSUME NEW m \in Layers, held'[m] > 0
        PROVE  Stack[m] \subseteq layers'
    <2>1. held[m] > 0
      BY <1>1, <1>2, <1>7
    <2>2. Stack[m] \subseteq layers
      BY <2>1 DEF LayersOK
    <2>3. m \in layers /\ held'[m] # 0
      BY <2>2, <1>5, <1>7
    <2> QED BY <2>2, <2>3, <1>4
  <1>8. ASSUME NEW m \in layers', NEW k \in Stack[m], k \notin layers'
        PROVE  FALSE
    <2>1. m \in layers /\ k \in layers
      BY <1>4 DEF LayersOK
    <2>2. k \in Stack[l] /\ \A n \in layers : k \in Stack[n] => n \in Stack[l] /\ held'[n] = 0
      BY <1>4, <1>8, <2>1
    <2>3. \A n \in layers : m \in Stack[n] => k \in Stack[n]
      BY <1>1, <1>6, <2>1
    <2>4. m \in Stack[l] /\ \A n \in layers : m \in Stack[n] => n \in Stack[l] /\ held'[n] = 0
      BY <2>1, <2>2, <2>3
    <2> QED BY <1>4, <2>4
  <1>9. layers' \in SUBSET Layers
    BY <1>1, <1>4
  <1> QED BY <1>2, <1>3, <1>7, <1>8, <1>9 DEF LayersOK

\* Another holder of a layer that is there, or is put there.
LEMMA HoldKeepsLayers ==
  ASSUME TypeOK, LayersOK, NEW l \in Layers, held' = [held EXCEPT ![l] = @ + 1],
         layers' = layers \cup Stack[l] \/ (l \in layers /\ layers' = layers)
  PROVE  /\ LayersOK' /\ layers' \in SUBSET Layers /\ held' \in [Layers -> Nat]
         /\ \A k \in Layers : held'[k] = IF k = l THEN held[k] + 1 ELSE held[k]
  <1>1. held \in [Layers -> Nat] /\ layers \in SUBSET Layers
    BY DEF TypeOK
  <1>2. \A k \in Layers : held'[k] = IF k = l THEN held[k] + 1 ELSE held[k]
    BY <1>1
  <1>3. held' \in [Layers -> Nat]
    BY <1>1
  <1>4. Stack[l] \subseteq Layers /\ \A m \in Stack[l] : Stack[m] \subseteq Stack[l]
    BY LayerAssumption
  <1>5. layers' = layers \cup Stack[l]
    BY DEF LayersOK
  <1>6. \A m \in layers' : Stack[m] \subseteq layers'
    BY <1>4, <1>5 DEF LayersOK
  <1>7. \A m \in Layers : held'[m] > 0 => Stack[m] \subseteq layers'
    BY <1>2, <1>5 DEF LayersOK
  <1> QED BY <1>1, <1>2, <1>3, <1>4, <1>5, <1>6, <1>7 DEF LayersOK

\* A step of p leaves the other requests alone.
LEMMA OpsKept ==
  ASSUME OpsOK, NEW p \in Procs, NEW n, op' = [op EXCEPT ![p] = n], OpOK(n)
  PROVE  OpsOK' /\ DOMAIN op' = Procs /\ op'[p] = n /\ \A q \in Procs : q # p => op'[q] = op[q]
  BY DEF OpsOK, OpOK

\* A quiet step in which no image, layer or container comes or goes.
LEMMA QuietKeeps ==
  ASSUME ImageInv, NEW p \in Procs, NEW n, Quiet(p, n), UNCHANGED <<images, layers, held, cont>>
  PROVE  OpsOK' /\ ContOK' /\ LayersOK' /\ LayerRefsExact' /\ DelOK'
  <1>1. TypeOK /\ OpsOK /\ ContOK /\ LayersOK /\ LayerRefsExact /\ DelOK
    BY DEF ImageInv
  <1>2. op' = [op EXCEPT ![p] = n] /\ OpOK(n)
    BY DEF Quiet
  <1>3. OpsOK' /\ op'[p] = n /\ \A q \in Procs : q # p => op'[q] = op[q]
    BY <1>1, <1>2, OpsKept
  <1>4. ContOK'
    <2>1. \A q \in Procs : op'[q].c \subseteq op[q].c
      BY <1>3 DEF Quiet
    <2>2. \A q \in Procs : op'[q].c # {} => q # p /\ op'[q] = op[q]
      BY <1>3 DEF Quiet
    <2>3. \A q \in Procs : op'[q].todo \in Making => op'[q].c # {}
      BY <1>1, <1>3 DEF Quiet, ContOK
    <2> QED BY <1>1, <2>1, <2>2, <2>3 DEF ContOK, At
  <1>5. LayersOK'
    BY <1>1 DEF LayersOK
  <1>6. LayerRefsExact'
    <2>1. ASSUME NEW l \in Layers
          PROVE  Exact(l)'
      <3>1. Exact(l)
        BY <1>1, ExactIs
      <3>2. ImgHolders(l)' = ImgHolders(l) /\ ContHolders(l)' = ContHolders(l)
        BY DEF ImgHolders, ContHolders
      <3>3. ReqHolders(l)' = ReqHolders(l)
        BY <1>3 DEF Quiet, ReqHolders
      <3>4. DelHolders(l)' = DelHolders(l)
        BY <1>3 DEF Quiet, DelHolders
      <3> QED BY <3>1, <3>2, <3>3, <3>4 DEF Exact
    <2>2. (LayerRefsExact <=> \A l \in Layers : Exact(l))'
      BY <1>3, ExactIs, PTL
    <2> QED BY <2>1, <2>2
  <1>7. DelOK'
    BY <1>1, <1>3 DEF DelOK, Quiet
  <1> QED BY <1>3, <1>4, <1>5, <1>6, <1>7

\* The references to images and their index change together.
LEMMA PutKeepsIndex ==
  ASSUME TypeOK, RefsIndexed, NEW r \in Refs, NEW i \in Images, Put(r, i)
  PROVE  RefsIndexed' /\ refs' \in [Refs -> Images \cup {NoImage}] /\ byID' \in [Images -> SUBSET Refs]
  BY DEF TypeOK, RefsIndexed, Put

\* Taking a reference out of the store takes it out of both indexes.
LEMMA TakeKeepsIndex ==
  ASSUME TypeOK, RefsIndexed, NEW r \in Refs, refs[r] # NoImage, Take(r)
  PROVE  RefsIndexed' /\ refs' \in [Refs -> Images \cup {NoImage}] /\ byID' \in [Images -> SUBSET Refs]
  <1>1. refs[r] \in Images /\ NoImage \notin Images
    BY BaseAssumption DEF TypeOK
  <1>2. refs' = [refs EXCEPT ![r] = NoImage] /\ byID' = [byID EXCEPT ![refs[r]] = @ \ {r}]
    BY DEF Take
  <1>3. refs' \in [Refs -> Images \cup {NoImage}] /\ byID' \in [Images -> SUBSET Refs]
    BY <1>1, <1>2 DEF TypeOK
  <1>4. ASSUME NEW i \in Images
        PROVE  byID'[i] = {q \in Refs : refs'[q] = i}
    <2>1. byID[i] = {q \in Refs : refs[q] = i}
      BY DEF RefsIndexed
    <2>2. \A q \in Refs : refs'[q] = i <=> q # r /\ refs[q] = i
      BY <1>1, <1>2 DEF TypeOK
    <2>3. byID'[i] = IF i = refs[r] THEN byID[i] \ {r} ELSE byID[i]
      BY <1>1, <1>2 DEF TypeOK
    <2> QED BY <2>1, <2>2, <2>3
  <1> QED BY <1>3, <1>4 DEF RefsIndexed

\* The parents on disk and the children in memory are those before the step, and no image goes.
LEMMA ParentsKept ==
  ASSUME ImageInv, NEW p \in Procs, op[p].todo \notin Deleting,
         \A q \in Procs : q # p => op'[q] = op[q],
         UNCHANGED <<parent, children, strayed>>, images \subseteq images', content \subseteq content'
  PROVE  ParentsOK'
  <1>1. ~At(p, "fsdelete")
    BY Apart DEF ImageInv, OpsOK, Ops, At
  <1>2. \A i \in Images : FsDeleting(i) => FsDeleting(i)'
    BY <1>1 DEF FsDeleting, At
  <1> QED BY <1>2 DEF ImageInv, ParentsOK

\* A quiet step that changes at most the references and adds at most to what is on disk.
LEMMA QuietStepKeeps ==
  ASSUME ImageInv, NEW p \in Procs, NEW n, Quiet(p, n),
         UNCHANGED <<images, layers, held, cont, parent, children, strayed>>,
         content' \in SUBSET Images, content \subseteq content',
         refs' \in [Refs -> Images \cup {NoImage}], byID' \in [Images -> SUBSET Refs],
         saved' \in [Refs -> Images \cup {NoImage}], RefsIndexed'
  PROVE  ImageInv'
  <1>1. OpsOK' /\ ContOK' /\ LayersOK' /\ LayerRefsExact' /\ DelOK'
    BY QuietKeeps
  <1>2. DOMAIN op' = Procs /\ \A q \in Procs : q # p => op'[q] = op[q]
    BY OpsKept DEF Quiet, ImageInv
  <1>3. op[p].todo \notin Deleting
    BY DEF Quiet
  <1>4. ParentsOK'
    BY <1>2, <1>3, ParentsKept
  <1>5. TypeOK'
    BY <1>2 DEF ImageInv, TypeOK
  <1> QED BY <1>1, <1>4, <1>5 DEF ImageInv

\* Steps that only decide.
LEMMA DecisionKeeps ==
  ASSUME ImageInv, NEW p \in Procs, NEW n, Quiet(p, n), UNCHANGED <<imagedb, refdb, layerdb, cont>>
  PROVE  ImageInv'
  <1>1. UNCHANGED <<images, layers, held, cont, parent, children, strayed, content, refs, byID, saved>>
    BY DEF imagedb, refdb, layerdb
  <1>2. /\ content' \in SUBSET Images /\ refs' \in [Refs -> Images \cup {NoImage}]
        /\ byID' \in [Images -> SUBSET Refs] /\ saved' \in [Refs -> Images \cup {NoImage}]
    BY <1>1 DEF ImageInv, TypeOK
  <1>3. RefsIndexed'
    BY <1>1 DEF ImageInv, RefsIndexed
  <1> QED BY <1>1, <1>2, <1>3, QuietStepKeeps

\* A new request has nothing in hand.
LEMMA RequestKeeps ==
  ASSUME ImageInv, NEW p \in Procs, Request(p)
  PROVE  ImageInv'
  <1>1. PICK n : Quiet(p, n)
    BY RequestOp DEF ImageInv
  <1> QED BY <1>1, DecisionKeeps DEF Request

\* The checks of a deletion change no image, container or layer.
LEMMA DeletionKeeps ==
  ASSUME ImageInv, NEW p \in Procs,
         \/ ImageDelete(p) \/ RemoveRest(p) \/ CheckConflict(p) \/ AllReferences(p)
         \/ ImagesPrune(p) \/ PruneRef(p)
  PROVE  ImageInv'
  <1>1. PICK n : Quiet(p, n)
    BY ImageDeleteOp, RemoveRestOp, CheckConflictOp, AllReferencesOp, ImagesPruneOp, PruneRefOp DEF ImageInv
  <1>2. UNCHANGED <<imagedb, refdb, layerdb, cont>>
    BY DEF ImageDelete, RemoveRest, CheckConflict, AllReferences, ImagesPrune, PruneRef
  <1> QED BY <1>1, <1>2, DecisionKeeps

\* Writing an image's configuration adds content, which no other part refers to.
LEMMA SetContentKeeps ==
  ASSUME ImageInv, NEW p \in Procs, SetContent(p)
  PROVE  ImageInv'
  <1>1. At(p, "set") /\ Then(p) /\ content' = content \cup {op[p].i}
    BY DEF SetContent
  <1>2. PICK n : Quiet(p, n)
    BY <1>1, QuietThen DEF ImageInv
  <1>3. op[p].i \in Images
    BY <1>1 DEF At, ImageInv, OpsOK, OpOK
  <1>4. UNCHANGED <<images, layers, held, cont, parent, children, strayed, refs, byID, saved>>
    BY DEF SetContent, refdb, layerdb
  <1>5. content' \in SUBSET Images /\ content \subseteq content'
    BY <1>1, <1>3 DEF ImageInv, TypeOK
  <1>6. /\ refs' \in [Refs -> Images \cup {NoImage}]
        /\ byID' \in [Images -> SUBSET Refs] /\ saved' \in [Refs -> Images \cup {NoImage}]
    BY <1>4 DEF ImageInv, TypeOK
  <1>7. RefsIndexed'
    BY <1>4 DEF ImageInv, RefsIndexed
  <1> QED BY <1>2, <1>4, <1>5, <1>6, <1>7, QuietStepKeeps

\* Adding a reference, whether or not it can be saved.
LEMMA PutKeeps ==
  ASSUME ImageInv, NEW p \in Procs, NEW step \in {"tag", "digest"}, At(p, step),
         NEW r \in Refs, Put(r, op[p].i), Save(p), UNCHANGED <<imagedb, layerdb, cont>>
  PROVE  ImageInv'
  <1>1. op[p].i \in Images /\ op[p].todo # <<>> /\ op[p].todo \notin Deleting \cup Making
    BY Apart DEF At, ImageInv, OpsOK, OpOK, Ops
  <1>2. PICK n : Quiet(p, n)
    <2>1. CASE Then(p)
      BY <2>1, QuietThen DEF ImageInv
    <2>2. CASE Abort(p)
      BY <2>2, <1>1, QuietAbort DEF ImageInv
    <2> QED BY <2>1, <2>2 DEF Save
  <1>3. RefsIndexed' /\ refs' \in [Refs -> Images \cup {NoImage}] /\ byID' \in [Images -> SUBSET Refs]
    BY <1>1, PutKeepsIndex DEF ImageInv
  <1>4. saved' \in [Refs -> Images \cup {NoImage}]
    BY <1>3 DEF Save, ImageInv, TypeOK
  <1>5. UNCHANGED <<images, layers, held, cont, parent, children, strayed, content>>
    BY DEF imagedb, layerdb
  <1>6. content' \in SUBSET Images
    BY <1>5 DEF ImageInv, TypeOK
  <1> QED BY <1>2, <1>3, <1>4, <1>5, <1>6, QuietStepKeeps

\* A tag that moves to another image leaves the old image's index and enters the new one's.
LEMMA AddTagKeeps ==
  ASSUME ImageInv, NEW p \in Procs, AddTag(p)
  PROVE  ImageInv'
  <1>1. At(p, "tag") /\ UNCHANGED <<imagedb, layerdb, cont>>
    BY DEF AddTag
  <1>2. CASE \E r \in Tags(op[p].r) : Put(r, op[p].i) /\ Save(p)
    <2>1. op[p].r \subseteq Refs
      BY DEF ImageInv, OpsOK, Ops
    <2> QED BY <1>1, <1>2, <2>1, PutKeeps DEF Tags
  <1>3. CASE Then(p) /\ UNCHANGED refdb
    <2>1. PICK n : Quiet(p, n)
      BY <1>1, <1>3, QuietThen DEF ImageInv
    <2> QED BY <1>1, <1>3, <2>1, DecisionKeeps
  <1> QED BY <1>2, <1>3 DEF AddTag

\* Adding a digest keeps the two indexes of references equal.
LEMMA AddDigestKeeps ==
  ASSUME ImageInv, NEW p \in Procs, AddDigest(p)
  PROVE  ImageInv'
  <1>1. At(p, "digest") /\ UNCHANGED <<imagedb, layerdb, cont>>
    BY DEF AddDigest
  <1>2. CASE \E d \in Digests : Put(d, op[p].i) /\ Save(p)
    BY <1>1, <1>2, PutKeeps, RefsAssumption
  <1>3. CASE Then(p) /\ UNCHANGED refdb
    <2>1. PICK n : Quiet(p, n)
      BY <1>1, <1>3, QuietThen DEF ImageInv
    <2> QED BY <1>1, <1>3, <2>1, DecisionKeeps
  <1> QED BY <1>2, <1>3 DEF AddDigest

\* Removing a reference keeps the two indexes equal, whether or not the save failed.
LEMMA RemoveRefKeeps ==
  ASSUME ImageInv, NEW p \in Procs, RemoveRef(p)
  PROVE  ImageInv'
  <1>1. PICK n : Quiet(p, n)
    BY RemoveRefOp DEF ImageInv
  <1>2. UNCHANGED <<images, layers, held, cont, parent, children, strayed, content>>
    BY DEF RemoveRef, imagedb, layerdb
  <1>3. content' \in SUBSET Images
    BY <1>2 DEF ImageInv, TypeOK
  <1>4. PICK r \in op[p].rs : IF refs[r] = NoImage THEN UNCHANGED refdb
                              ELSE Take(r) /\ (saved' = refs' \/ UNCHANGED saved)
    BY DEF RemoveRef
  <1>5. r \in Refs
    BY DEF ImageInv, OpsOK, Ops
  <1>6. /\ RefsIndexed' /\ refs' \in [Refs -> Images \cup {NoImage}] /\ byID' \in [Images -> SUBSET Refs]
        /\ saved' \in [Refs -> Images \cup {NoImage}]
    <2>1. CASE refs[r] = NoImage
      BY <1>4, <2>1 DEF ImageInv, TypeOK, RefsIndexed, refdb
    <2>2. CASE refs[r] # NoImage
      <3>1. RefsIndexed' /\ refs' \in [Refs -> Images \cup {NoImage}] /\ byID' \in [Images -> SUBSET Refs]
        BY <1>4, <1>5, <2>2, TakeKeepsIndex DEF ImageInv
      <3> QED BY <1>4, <2>2, <3>1 DEF ImageInv, TypeOK
    <2> QED BY <2>1, <2>2
  <1> QED BY <1>1, <1>2, <1>3, <1>6, QuietStepKeeps

\* Setting an image's parent enters it among the parent's children if the parent is there.
LEMMA SetParentKeeps ==
  ASSUME ImageInv, NEW p \in Procs, SetParent(p)
  PROVE  ImageInv'
  <1> DEFINE i == op[p].i
             base == Base[op[p].i]
  <1>1. At(p, "setparent") /\ ~Locked /\ UNCHANGED <<images, content, refdb, layerdb, cont>>
    BY DEF SetParent
  <1>2. i \in Images /\ op[p].todo # <<>> /\ op[p].todo \in Todos /\ op[p].todo \notin Deleting \cup Making
    BY <1>1, Apart DEF At, ImageInv, OpsOK, OpOK, Ops
  <1>3. PICK n : Quiet(p, n)
    <2>1. CASE Then(p)
      BY <2>1, <1>1, QuietThen DEF ImageInv
    <2>2. CASE Abort(p)
      BY <2>2, <1>2, QuietAbort DEF ImageInv
    <2> QED BY <2>1, <2>2 DEF SetParent
  <1>4. UNCHANGED <<images, layers, held, cont, content, refs, byID, saved>>
    BY <1>1 DEF refdb, layerdb
  <1>5. OpsOK' /\ ContOK' /\ LayersOK' /\ LayerRefsExact' /\ DelOK' /\ DOMAIN op' = Procs
    <2>1. OpsOK' /\ ContOK' /\ LayersOK' /\ LayerRefsExact' /\ DelOK'
      BY <1>3, <1>4, QuietKeeps
    <2> QED BY <2>1 DEF OpsOK
  <1>6. \A j \in Images : ~FsDeleting(j)
    BY <1>1 DEF FsDeleting, Locked, At
  <1>7. RefsIndexed'
    BY <1>4 DEF ImageInv, RefsIndexed
  <1>8. CASE UNCHANGED <<children, parent, strayed>>
    <2>1. ParentsOK'
      BY <1>4, <1>6, <1>8 DEF ParentsOK, ImageInv
    <2>2. TypeOK'
      BY <1>4, <1>5, <1>8 DEF TypeOK, ImageInv
    <2> QED BY <1>5, <1>7, <2>1, <2>2 DEF ImageInv
  <1>9. CASE /\ base \in images
             /\ children' = [q \in Images |-> IF q = base THEN children[q] \cup {i}
                                            ELSE IF q = GetParent(i) THEN children[q] \ {i} ELSE children[q]]
             /\ IF i \in content
                  THEN parent' = [parent EXCEPT ![i] = base] /\ strayed' = strayed \ {i}
                  ELSE UNCHANGED <<parent, strayed>>
    <2>1. /\ children \in [Images -> SUBSET Images] /\ parent \in [Images -> Images \cup {NoImage}]
          /\ images \in SUBSET Images /\ strayed \in SUBSET Images
      BY DEF ImageInv, TypeOK
    <2>2. /\ children' \in [Images -> SUBSET Images] /\ parent' \in [Images -> Images \cup {NoImage}]
          /\ strayed' \in SUBSET Images
      BY <1>2, <1>9, <2>1
    <2>3. TypeOK'
      BY <1>4, <1>5, <2>2 DEF TypeOK, ImageInv
    <2>4. \A j, q \in Images : j # i /\ j \in children[q] => j \in children'[q]
      BY <1>9, <2>1
    <2>5. ASSUME NEW j \in Images, parent'[j] # NoImage
          PROVE  j \in content'
      BY <1>2, <1>4, <1>9, <2>1, <2>5 DEF ParentsOK, ImageInv
    <2>6. ASSUME NEW j \in Images \ strayed', parent'[j] # NoImage
          PROVE  parent'[j] \in images' /\ j \in children'[parent'[j]]
      <3>1. CASE j # i
        <4>1. j \notin strayed /\ parent'[j] = parent[j] /\ parent[j] \in Images
          BY <1>2, <1>9, <2>1, <2>6, <3>1
        <4>2. parent[j] \in images /\ j \in children[parent[j]]
          BY <1>6, <2>6, <4>1 DEF ParentsOK, ImageInv
        <4> QED BY <1>4, <2>4, <3>1, <4>1, <4>2
      <3>2. CASE j = i
        <4>1. i \in content
          BY <1>4, <2>5, <2>6, <3>2
        <4>2. parent'[i] = base
          BY <1>2, <1>9, <2>1, <4>1
        <4> QED BY <1>4, <1>9, <2>1, <3>2, <4>2
      <3> QED BY <3>1, <3>2
    <2>7. ParentsOK'
      BY <2>5, <2>6 DEF ParentsOK
    <2> QED BY <1>5, <1>7, <2>3, <2>7 DEF ImageInv
  <1> QED BY <1>8, <1>9 DEF SetParent

\* Steps of p that hold a layer or let one go: the other requests and the containers stay.
LEMMA ContKept ==
  ASSUME ImageInv, NEW p \in Procs, NEW n, op' = [op EXCEPT ![p] = n], OpOK(n),
         op[p].todo \notin Making, n.todo \notin Making, n.c = {}, UNCHANGED cont
  PROVE  ContOK'
  <1>1. op'[p] = n /\ \A q \in Procs : q # p => op'[q] = op[q]
    BY OpsKept DEF ImageInv
  <1>2. \A q \in Procs : op'[q].c \subseteq op[q].c
    BY <1>1
  <1>3. \A q \in Procs : op'[q].c # {} => q # p /\ op'[q] = op[q]
    BY <1>1
  <1>4. \A q \in Procs : op'[q].todo \in Making => op'[q].c # {}
    BY <1>1 DEF ContOK, ImageInv
  <1> QED BY <1>2, <1>3, <1>4 DEF ContOK, At, ImageInv

\* Taking the layer of an image counts the request.
LEMMA HoldLayerKeeps ==
  ASSUME ImageInv, NEW p \in Procs, HoldLayer(p)
  PROVE  ImageInv'
  <1> DEFINE n == [op[p] EXCEPT !.todo = Tail(@), !.holds = TRUE]
  <1>1. At(p, "hold") /\ op' = [op EXCEPT ![p] = n] /\ Hold(LayerOf[op[p].i])
        /\ UNCHANGED <<imagedb, refdb, cont>>
    BY DEF HoldLayer, Go
  <1>2. OpOK(op[p]) /\ op[p] \in Ops /\ op[p].todo \in Fresh /\ op[p].todo # <<>> /\ op[p].i \in Images
    BY <1>1, Apart DEF At, ImageInv, OpsOK, OpOK, Ops
  <1>3. Tail(op[p].todo) \in Holding /\ op[p].todo \notin Holding \cup Deleting \cup Making
    <2>1. Tail(op[p].todo) \in Holding /\ Head(op[p].todo) = "hold"
      BY <1>2, FreshStep
    <2> QED BY <1>2, <2>1, HoldingStep, DeletingStep, MakingStep
  <1>4. ~op[p].holds /\ op[p].c = {}
    BY <1>2, <1>3 DEF OpOK
  <1>5. Tail(op[p].todo) \in Todos /\ Tail(op[p].todo) \notin Cached \cup Deleting \cup Making
    <2>1. Tail(op[p].todo) \in Todos
      BY <1>3 DEF Todos
    <2> QED BY <2>1, <1>3, Apart, HoldingStep
  <1>6. n \in Ops /\ n.todo = Tail(op[p].todo) /\ n.holds /\ n.c = op[p].c /\ n.i = op[p].i
    BY <1>2, <1>5 DEF Ops
  <1> HIDE DEF n
  <1>7. OpOK(n)
    BY <1>2, <1>3, <1>4, <1>5, <1>6 DEF OpOK
  <1>8. OpsOK' /\ DOMAIN op' = Procs /\ op'[p] = n /\ \A q \in Procs : q # p => op'[q] = op[q]
    BY <1>1, <1>7, OpsKept DEF ImageInv
  <1>9. ContOK'
    BY <1>1, <1>3, <1>4, <1>5, <1>6, <1>7, ContKept
  <1>10. LayerOf[op[p].i] \in Layers
    BY <1>2, LayerAssumption
  <1>11. /\ LayersOK' /\ layers' \in SUBSET Layers /\ held' \in [Layers -> Nat]
         /\ \A k \in Layers : held'[k] = IF k = LayerOf[op[p].i] THEN held[k] + 1 ELSE held[k]
    BY <1>1, <1>10, HoldKeepsLayers DEF Hold, ImageInv
  <1>12. UNCHANGED <<images, children, content, parent, strayed, refs, byID, saved, cont>>
    BY <1>1 DEF imagedb, refdb
  <1>13. LayerRefsExact'
    <2>1. ASSUME NEW l \in Layers
          PROVE  Exact(l)'
      <3>1. Exact(l) /\ held[l] \in Nat
        BY ExactIs DEF ImageInv, TypeOK
      <3>2. ImgHolders(l)' = ImgHolders(l) /\ ContHolders(l)' = ContHolders(l)
        BY <1>12 DEF ImgHolders, ContHolders
      <3>3. Cardinality(ReqHolders(l)') = Cardinality(ReqHolders(l)) + One(l, op[p].i)
        <4>1. Cardinality(ReqHolders(l)') = Cardinality(ReqHolders(l))
           + (IF n.holds THEN One(l, n.i) ELSE 0) - (IF op[p].holds THEN One(l, op[p].i) ELSE 0)
          BY <1>1, ReqCount DEF ImageInv
        <4>2. Cardinality(ReqHolders(l)) \in Nat /\ One(l, n.i) \in Nat
          BY HoldersFinite DEF ImageInv, One
        <4> QED BY <1>4, <1>6, <4>1, <4>2
      <3>4. DelHolders(l)' = DelHolders(l)
        BY <1>3, <1>5, <1>6, <1>8 DEF DelHolders
      <3>5. held'[l] = held[l] + One(l, op[p].i)
        BY <1>11, <3>1 DEF One
      <3>6. /\ Cardinality(ImgHolders(l)) \in Nat /\ Cardinality(ContHolders(l)) \in Nat
            /\ Cardinality(ReqHolders(l)) \in Nat /\ Cardinality(DelHolders(l)) \in Nat /\ One(l, op[p].i) \in Nat
        BY HoldersFinite DEF ImageInv, One
      <3> QED BY <3>1, <3>2, <3>3, <3>4, <3>5, <3>6 DEF Exact
    <2>2. (LayerRefsExact <=> \A l \in Layers : Exact(l))'
      BY <1>8, ExactIs, PTL
    <2> QED BY <2>1, <2>2
  <1>14. DelOK' /\ RefsIndexed'
    BY <1>5, <1>6, <1>8, <1>12 DEF DelOK, RefsIndexed, ImageInv
  <1>15. ParentsOK'
    BY <1>3, <1>8, <1>12, ParentsKept
  <1>16. TypeOK'
    BY <1>8, <1>11, <1>12 DEF TypeOK, ImageInv
  <1> QED BY <1>8, <1>9, <1>11, <1>13, <1>14, <1>15, <1>16 DEF ImageInv

\* The count of a layer follows the changes of the four sets of its holders.
LEMMA ExactStep ==
  ASSUME ImageInv, NEW l \in Layers, NEW di \in Int, NEW dc \in Int, NEW dr \in Int, NEW dd \in Int,
         Cardinality(ImgHolders(l)') = Cardinality(ImgHolders(l)) + di,
         Cardinality(ContHolders(l)') = Cardinality(ContHolders(l)) + dc,
         Cardinality(ReqHolders(l)') = Cardinality(ReqHolders(l)) + dr,
         Cardinality(DelHolders(l)') = Cardinality(DelHolders(l)) + dd,
         held'[l] = held[l] + (di + dc + dr + dd)
  PROVE  Exact(l)'
  <1>1. Exact(l) /\ held[l] \in Nat
    BY ExactIs DEF ImageInv, TypeOK
  <1>2. /\ Cardinality(ImgHolders(l)) \in Nat /\ Cardinality(ContHolders(l)) \in Nat
        /\ Cardinality(ReqHolders(l)) \in Nat /\ Cardinality(DelHolders(l)) \in Nat
    BY HoldersFinite DEF ImageInv
  <1> QED BY <1>1, <1>2 DEF Exact

\* The counts are exact when each layer's count is.
LEMMA ExactAll ==
  ASSUME OpsOK', \A l \in Layers : Exact(l)'
  PROVE  LayerRefsExact'
  <1>1. (LayerRefsExact <=> \A l \in Layers : Exact(l))'
    BY ExactIs, PTL
  <1> QED BY <1>1

\* Who has a layer keeps it from being released by others.
LEMMA HolderCounts ==
  ASSUME ImageInv
  PROVE  /\ \A i \in images : held[LayerOf[i]] > 0
         /\ \A c \in Containers : cont[c] # NoCont => held[LayerOf[cont[c].img]] > 0
         /\ \A p \in Procs : op[p].holds => held[LayerOf[op[p].i]] > 0
         /\ \A p \in Procs : op[p].todo \in Deleting => held[LayerOf[op[p].i]] > 0
  <1>1. ASSUME NEW l \in Layers,
               ImgHolders(l) # {} \/ ContHolders(l) # {} \/ ReqHolders(l) # {} \/ DelHolders(l) # {}
        PROVE  held[l] > 0
    <2>1. Exact(l) /\ held[l] \in Nat
      BY ExactIs DEF ImageInv, TypeOK
    <2>2. /\ IsFiniteSet(ImgHolders(l)) /\ Cardinality(ImgHolders(l)) \in Nat
          /\ IsFiniteSet(ContHolders(l)) /\ Cardinality(ContHolders(l)) \in Nat
          /\ IsFiniteSet(ReqHolders(l)) /\ Cardinality(ReqHolders(l)) \in Nat
          /\ IsFiniteSet(DelHolders(l)) /\ Cardinality(DelHolders(l)) \in Nat
      BY HoldersFinite DEF ImageInv
    <2>3. \/ Cardinality(ImgHolders(l)) # 0 \/ Cardinality(ContHolders(l)) # 0
          \/ Cardinality(ReqHolders(l)) # 0 \/ Cardinality(DelHolders(l)) # 0
      BY <1>1, <2>2, FS_EmptySet
    <2> QED BY <2>1, <2>2, <2>3 DEF Exact
  <1>2. ASSUME NEW i \in images
        PROVE  held[LayerOf[i]] > 0
    <2>1. LayerOf[i] \in Layers
      BY LayerAssumption DEF ImageInv, TypeOK
    <2>2. i \in ImgHolders(LayerOf[i])
      BY DEF ImgHolders
    <2> QED BY <1>1, <2>1, <2>2
  <1>3. ASSUME NEW c \in Containers, cont[c] # NoCont
        PROVE  held[LayerOf[cont[c].img]] > 0
    <2>1. cont[c].img \in Images
      BY <1>3 DEF ImageInv, TypeOK, ContOK, NoCont
    <2>2. LayerOf[cont[c].img] \in Layers /\ c \in ContHolders(LayerOf[cont[c].img])
      BY <1>3, <2>1, LayerAssumption DEF ContHolders
    <2> QED BY <1>1, <2>2
  <1>4. ASSUME NEW p \in Procs, op[p].holds
        PROVE  held[LayerOf[op[p].i]] > 0
    <2>1. op[p].i \in Images
      BY <1>4, Apart DEF ImageInv, OpsOK, OpOK
    <2>2. LayerOf[op[p].i] \in Layers /\ p \in ReqHolders(LayerOf[op[p].i])
      BY <1>4, <2>1, LayerAssumption DEF ReqHolders
    <2> QED BY <1>1, <2>2
  <1>5. ASSUME NEW p \in Procs, op[p].todo \in Deleting
        PROVE  held[LayerOf[op[p].i]] > 0
    <2>1. op[p].i \in Images
      BY <1>5, Apart DEF ImageInv, OpsOK, OpOK
    <2>2. LayerOf[op[p].i] \in Layers /\ p \in DelHolders(LayerOf[op[p].i])
      BY <1>5, <2>1, LayerAssumption DEF DelHolders
    <2> QED BY <1>1, <2>2
  <1> QED BY <1>2, <1>3, <1>4, <1>5

\* Releasing the layer of a request takes one from each layer the image has.
LEMMA ReleaseLayerKeeps ==
  ASSUME ImageInv, NEW p \in Procs, ReleaseLayer(p)
  PROVE  ImageInv'
  <1> DEFINE o == [op[p] EXCEPT !.todo = Tail(@), !.holds = FALSE]
  <1>1. /\ At(p, "release") /\ Continue(p, o) /\ Release(LayerOf[op[p].i])
        /\ UNCHANGED <<imagedb, refdb, cont>>
    BY DEF ReleaseLayer
  <1>2. OpOK(op[p]) /\ op[p] \in Ops /\ op[p].todo # <<>> /\ op[p].i \in Images /\ Head(op[p].todo) = "release"
    BY <1>1 DEF At, ImageInv, OpsOK, OpOK
  <1>3. op[p].todo \in Holding /\ op[p].todo \notin Deleting \cup Making
    <2>1. op[p].todo \in Todos
      BY <1>2 DEF Ops
    <2>2. op[p].todo \notin Cached
      BY <1>2, CachedStep
    <2>3. op[p].todo \notin Plain
      BY <1>2, PlainStep
    <2> QED BY <1>2, <2>1, <2>2, <2>3, Apart DEF Todos
  <1>4. Tail(op[p].todo) \in Plain /\ Tail(op[p].todo) \in Todos
    <2>1. Tail(op[p].todo) \in Plain
      BY <1>2, <1>3, HoldingStep
    <2> QED BY <2>1, PlainApart
  <1>5. op[p].holds /\ op[p].c = {}
    BY <1>2, <1>3 DEF OpOK
  <1>6. o \in Ops /\ o.todo = Tail(op[p].todo) /\ ~o.holds /\ o.c = op[p].c /\ o.i = op[p].i
    BY <1>2, <1>4 DEF Ops
  <1> HIDE DEF o
  <1>7. OpOK(o) /\ o.todo \notin Deleting \cup Making
    BY <1>2, <1>4, <1>5, <1>6, RequestInOrder
  <1>8. PICK n : /\ op' = [op EXCEPT ![p] = n] /\ OpOK(n) /\ n.todo = o.todo
                 /\ n.c # {} => n.todo \in Making
                 /\ n = Idle \/ n = o
    BY <1>1, <1>7, ContinueOp DEF ImageInv
  <1>9. ~n.holds /\ n.c = {}
    BY <1>6, <1>7, <1>8, IdleOK
  <1>10. OpsOK' /\ DOMAIN op' = Procs /\ op'[p] = n /\ \A q \in Procs : q # p => op'[q] = op[q]
    BY <1>8, OpsKept DEF ImageInv
  <1>11. ContOK'
    BY <1>1, <1>3, <1>7, <1>8, <1>9, ContKept
  <1>12. LayerOf[op[p].i] \in Layers /\ held[LayerOf[op[p].i]] > 0
    BY <1>2, <1>5, LayerAssumption, HolderCounts
  <1>13. /\ LayersOK' /\ layers' \in SUBSET Layers /\ held' \in [Layers -> Nat]
         /\ \A k \in Layers : held'[k] = IF k = LayerOf[op[p].i] THEN held[k] - 1 ELSE held[k]
    BY <1>1, <1>12, ReleaseKeepsLayers DEF ImageInv
  <1>14. UNCHANGED <<images, children, content, parent, strayed, refs, byID, saved, cont>>
    BY <1>1 DEF imagedb, refdb
  <1>15. ASSUME NEW l \in Layers
         PROVE  Exact(l)'
    <2>1. ImgHolders(l)' = ImgHolders(l) /\ ContHolders(l)' = ContHolders(l)
      BY <1>14 DEF ImgHolders, ContHolders
    <2>2. Cardinality(ReqHolders(l)') = Cardinality(ReqHolders(l))
           + (IF n.holds THEN One(l, n.i) ELSE 0) - (IF op[p].holds THEN One(l, op[p].i) ELSE 0)
      BY <1>8, ReqCount DEF ImageInv
    <2>3. DelHolders(l)' = DelHolders(l)
      BY <1>3, <1>7, <1>8, <1>10 DEF DelHolders
    <2>4. /\ Cardinality(ImgHolders(l)) \in Nat /\ Cardinality(ContHolders(l)) \in Nat
          /\ Cardinality(ReqHolders(l)) \in Nat /\ Cardinality(DelHolders(l)) \in Nat
          /\ One(l, op[p].i) \in Nat /\ held[l] \in Nat
      BY HoldersFinite DEF ImageInv, TypeOK, One
    <2>5. Cardinality(ReqHolders(l)') = Cardinality(ReqHolders(l)) + (0 - One(l, op[p].i))
      BY <1>5, <1>9, <2>2, <2>4
    <2>6. held'[l] = held[l] + (0 + 0 + (0 - One(l, op[p].i)) + 0)
      BY <1>13, <2>4 DEF One
    <2>7. /\ Cardinality(ImgHolders(l)') = Cardinality(ImgHolders(l)) + 0
          /\ Cardinality(ContHolders(l)') = Cardinality(ContHolders(l)) + 0
          /\ Cardinality(DelHolders(l)') = Cardinality(DelHolders(l)) + 0
          /\ 0 - One(l, op[p].i) \in Int
      BY <2>1, <2>3, <2>4
    <2> QED BY <2>5, <2>6, <2>7, ExactStep
  <1>16. LayerRefsExact'
    BY <1>10, <1>15, ExactAll
  <1>17. DelOK' /\ RefsIndexed'
    BY <1>7, <1>8, <1>10, <1>14 DEF DelOK, RefsIndexed, ImageInv
  <1>18. ParentsOK'
    BY <1>3, <1>10, <1>14, ParentsKept
  <1>19. TypeOK'
    BY <1>10, <1>13, <1>14 DEF TypeOK, ImageInv
  <1> QED BY <1>10, <1>11, <1>13, <1>16, <1>17, <1>18, <1>19 DEF ImageInv

\* Creating an image passes the request's layer on to the image or counts the image beside it.
LEMMA CreateKeeps ==
  ASSUME ImageInv, NEW p \in Procs, Create(p)
  PROVE  ImageInv'
  <1> DEFINE i == op[p].i
  <1>1. At(p, "create") /\ ~Locked /\ UNCHANGED <<children, content, parent, strayed, refdb, layers, cont>>
    BY DEF Create
  <1>2. i \in Images /\ op[p].todo # <<>> /\ op[p].todo \in Todos /\ op[p].todo \notin Deleting \cup Making
    BY <1>1, Apart DEF At, ImageInv, OpsOK, OpOK, Ops
  <1>3. PICK n : Quiet(p, n)
    <2>1. CASE Then(p)
      BY <2>1, <1>1, QuietThen DEF ImageInv
    <2>2. CASE Abort(p)
      BY <2>2, <1>2, QuietAbort DEF ImageInv
    <2> QED BY <2>1, <2>2 DEF Create
  <1>4. CASE UNCHANGED <<images, held>>
    BY <1>1, <1>3, <1>4, DecisionKeeps DEF imagedb, layerdb
  <1>5. CASE /\ i \notin images /\ LayerOf[i] \in layers /\ images' = images \cup {i}
             /\ held' = [held EXCEPT ![LayerOf[i]] = @ + 1]
    <2>1. op' = [op EXCEPT ![p] = n] /\ OpOK(n)
      BY <1>3 DEF Quiet
    <2>2. OpsOK' /\ DOMAIN op' = Procs /\ op'[p] = n /\ \A q \in Procs : q # p => op'[q] = op[q]
      BY <2>1, OpsKept DEF ImageInv
    <2>3. ContOK'
      BY <1>1, <1>3, ContKept DEF Quiet
    <2>4. LayerOf[i] \in Layers
      BY <1>2, LayerAssumption
    <2>5. /\ LayersOK' /\ layers' \in SUBSET Layers /\ held' \in [Layers -> Nat]
          /\ \A k \in Layers : held'[k] = IF k = LayerOf[i] THEN held[k] + 1 ELSE held[k]
      BY <1>1, <1>5, <2>4, HoldKeepsLayers DEF ImageInv
    <2>6. ASSUME NEW l \in Layers
          PROVE  Exact(l)'
      <3>1. Cardinality(ImgHolders(l)') = Cardinality(ImgHolders(l)) + One(l, i)
        BY <1>5, ImgCount DEF ImageInv
      <3>2. ContHolders(l)' = ContHolders(l)
        BY <1>1 DEF ContHolders
      <3>3. ReqHolders(l)' = ReqHolders(l) /\ DelHolders(l)' = DelHolders(l)
        BY <1>3, <2>2 DEF ReqHolders, DelHolders, Quiet
      <3>4. /\ Cardinality(ImgHolders(l)) \in Nat /\ Cardinality(ContHolders(l)) \in Nat
            /\ Cardinality(ReqHolders(l)) \in Nat /\ Cardinality(DelHolders(l)) \in Nat
            /\ One(l, i) \in Int /\ held[l] \in Nat
        BY HoldersFinite DEF ImageInv, TypeOK, One
      <3>5. held'[l] = held[l] + (One(l, i) + 0 + 0 + 0)
        BY <2>5, <3>4 DEF One
      <3>6. /\ Cardinality(ContHolders(l)') = Cardinality(ContHolders(l)) + 0
            /\ Cardinality(ReqHolders(l)') = Cardinality(ReqHolders(l)) + 0
            /\ Cardinality(DelHolders(l)') = Cardinality(DelHolders(l)) + 0
        BY <3>2, <3>3, <3>4
      <3> QED BY <3>1, <3>4, <3>5, <3>6, ExactStep
    <2>7. LayerRefsExact'
      BY <2>2, <2>6, ExactAll
    <2>8. \A q \in Procs : op[q].todo \notin Deleting
      BY <1>1, Apart DEF Locked, ImageInv, OpsOK, Ops
    <2>9. DelOK'
      BY <1>3, <2>2, <2>8 DEF DelOK, Quiet
    <2>10. RefsIndexed'
      BY <1>1 DEF RefsIndexed, ImageInv, refdb
    <2>11. ParentsOK'
      BY <1>1, <1>2, <1>5, <2>2, ParentsKept
    <2>12. TypeOK'
      BY <1>1, <1>2, <1>5, <2>2, <2>5 DEF TypeOK, ImageInv, refdb
    <2> QED BY <2>2, <2>3, <2>5, <2>7, <2>9, <2>10, <2>11, <2>12 DEF ImageInv
  <1> QED BY <1>4, <1>5 DEF Create

\* Deleting an image leaves its layer with the unfinished deletion.
LEMMA DeleteKeeps ==
  ASSUME ImageInv, NEW p \in Procs, Delete(p)
  PROVE  ImageInv'
  <1> DEFINE i == op[p].i
  <1>1. At(p, "delete") /\ ~Locked /\ UNCHANGED <<content, strayed, refdb, layerdb, cont>>
    BY DEF Delete
  <1>2. /\ op[p] \in Ops /\ OpOK(op[p]) /\ op[p].todo \in Plain /\ op[p].todo # <<>>
        /\ ~op[p].holds /\ op[p].c = {} /\ i \in Images
        /\ op[p].todo \notin Deleting \cup Making
    BY <1>1, DeletesPlainly DEF ImageInv
  <1>3. CASE i \notin images
    <2>1. Abort(p) /\ UNCHANGED <<images, parent, children>>
      BY <1>3 DEF Delete
    <2>2. PICK n : Quiet(p, n)
      BY <1>2, <2>1, QuietAbort DEF ImageInv
    <2> QED BY <1>1, <2>1, <2>2, DecisionKeeps DEF imagedb
  <1>4. CASE i \in images
    <2> DEFINE n == [op[p] EXCEPT !.todo = <<"fsdelete", "lrelease">>]
    <2>1. /\ images' = images \ {i}
          /\ parent' = [j \in Images |-> IF j \in children[i] THEN NoImage ELSE parent[j]]
          /\ children' = [q \in Images |->
                            IF q = i THEN {} ELSE IF q = GetParent(i) THEN children[q] \ {i} ELSE children[q]]
          /\ Continue(p, n)
      BY <1>4 DEF Delete
    <2>2. <<"fsdelete", "lrelease">> \in Deleting /\ <<"fsdelete", "lrelease">> # <<>>
      BY DEF Deleting
    <2>3. /\ <<"fsdelete", "lrelease">> \in Todos /\ <<"fsdelete", "lrelease">> \notin Holding
          /\ <<"fsdelete", "lrelease">> \notin Cached /\ <<"fsdelete", "lrelease">> \notin Making
      <3>1. Head(<<"fsdelete", "lrelease">>) = "fsdelete"
        OBVIOUS
      <3> QED BY <2>2, <3>1, HoldingStep, CachedStep, MakingStep DEF Todos
    <2>4. /\ n \in Ops /\ n.todo = <<"fsdelete", "lrelease">> /\ (n.holds <=> op[p].holds)
          /\ n.c = op[p].c /\ n.i = i
      BY <1>2, <2>3 DEF Ops
    <2> HIDE DEF n
    <2>5. OpOK(n) /\ n.todo \in Deleting /\ n.todo \notin Making /\ ~n.holds /\ n.c = {} /\ n.todo # <<>>
      BY <1>2, <2>2, <2>3, <2>4 DEF OpOK
    <2>6. op' = [op EXCEPT ![p] = n]
      BY <2>1, <2>5 DEF Continue, Go
    <2>7. OpsOK' /\ DOMAIN op' = Procs /\ op'[p] = n /\ \A q \in Procs : q # p => op'[q] = op[q]
      BY <2>5, <2>6, OpsKept DEF ImageInv
    <2>8. ContOK'
      BY <1>1, <1>2, <2>5, <2>6, ContKept
    <2>9. UNCHANGED <<content, strayed, refs, byID, saved, layers, held, cont>>
      BY <1>1 DEF refdb, layerdb
    <2>10. LayersOK' /\ RefsIndexed'
      BY <2>9 DEF LayersOK, RefsIndexed, ImageInv
    <2>11. ASSUME NEW l \in Layers
           PROVE  Exact(l)'
      <3>1. Cardinality(ImgHolders(l)') = Cardinality(ImgHolders(l)) - One(l, i)
        BY <1>4, <2>1, ImgCount DEF ImageInv
      <3>2. ContHolders(l)' = ContHolders(l)
        BY <2>9 DEF ContHolders
      <3>3. ReqHolders(l)' = ReqHolders(l)
        BY <1>2, <2>5, <2>7 DEF ReqHolders
      <3>4. Cardinality(DelHolders(l)') = Cardinality(DelHolders(l))
              + (IF n.todo \in Deleting THEN One(l, n.i) ELSE 0)
              - (IF op[p].todo \in Deleting THEN One(l, op[p].i) ELSE 0)
        BY <2>6, DelCount DEF ImageInv
      <3>5. /\ Cardinality(ImgHolders(l)) \in Nat /\ Cardinality(ContHolders(l)) \in Nat
            /\ Cardinality(ReqHolders(l)) \in Nat /\ Cardinality(DelHolders(l)) \in Nat
            /\ One(l, i) \in Int /\ held[l] \in Nat
        BY HoldersFinite DEF ImageInv, TypeOK, One
      <3>6. held'[l] = held[l] + ((0 - One(l, i)) + 0 + 0 + One(l, i))
        BY <2>9, <3>5
      <3>7. /\ Cardinality(ImgHolders(l)') = Cardinality(ImgHolders(l)) + (0 - One(l, i))
            /\ Cardinality(ContHolders(l)') = Cardinality(ContHolders(l)) + 0
            /\ Cardinality(ReqHolders(l)') = Cardinality(ReqHolders(l)) + 0
            /\ 0 - One(l, i) \in Int
        BY <3>1, <3>2, <3>3, <3>5
      <3>8. Cardinality(DelHolders(l)') = Cardinality(DelHolders(l)) + One(l, i)
        BY <1>2, <2>4, <2>5, <3>4, <3>5
      <3> QED BY <3>5, <3>6, <3>7, <3>8, ExactStep
    <2>12. LayerRefsExact'
      BY <2>7, <2>11, ExactAll
    <2>13. \A q \in Procs : op[q].todo \notin Deleting
      BY <1>1, Apart DEF Locked, ImageInv, OpsOK, Ops
    <2>14. DelOK'
      BY <2>1, <2>4, <2>7, <2>13 DEF DelOK
    <2>15. /\ children \in [Images -> SUBSET Images] /\ parent \in [Images -> Images \cup {NoImage}]
           /\ images \in SUBSET Images
      BY DEF ImageInv, TypeOK
    <2>16. TypeOK'
      BY <2>1, <2>7, <2>9, <2>15 DEF TypeOK, ImageInv
    <2>17. \A j \in Images : j = i => FsDeleting(j)'
      <3>1. Head(n.todo) = "fsdelete"
        BY <2>4
      <3> QED BY <2>4, <2>5, <2>7, <3>1 DEF FsDeleting, At
    <2>18. \A j \in Images : ~FsDeleting(j)
      BY <1>1 DEF FsDeleting, Locked, At
    <2>19. ASSUME NEW j \in Images, parent'[j] # NoImage
           PROVE  j \notin children[i] /\ parent'[j] = parent[j] /\ j \in content'
      BY <2>1, <2>9, <2>19 DEF ParentsOK, ImageInv
    <2>20. ASSUME NEW j \in Images \ strayed', parent'[j] # NoImage, j # i
           PROVE  parent'[j] \in images' /\ j \in children'[parent'[j]]
      <3>1. j \notin children[i] /\ parent'[j] = parent[j] /\ parent[j] \in Images
        BY <2>15, <2>19, <2>20
      <3>2. parent[j] \in images /\ j \in children[parent[j]]
        BY <2>9, <2>18, <2>20, <3>1 DEF ParentsOK, ImageInv
      <3>3. parent[j] # i
        BY <3>1, <3>2
      <3> QED BY <2>1, <2>20, <3>1, <3>2, <3>3
    <2>21. ParentsOK'
      BY <2>17, <2>19, <2>20 DEF ParentsOK
    <2> QED BY <2>7, <2>8, <2>10, <2>12, <2>14, <2>16, <2>21 DEF ImageInv
  <1> QED BY <1>3, <1>4

\* A request with nothing left but the release of its deletion's layer.
LEMMA FsDeleteKeeps ==
  ASSUME ImageInv, NEW p \in Procs, FsDelete(p)
  PROVE  ImageInv'
  <1> DEFINE i == op[p].i
             n == [op[p] EXCEPT !.todo = Tail(@)]
  <1>1. /\ At(p, "fsdelete") /\ parent' = [parent EXCEPT ![i] = NoImage]
        /\ content' = content \ {i} \/ content' = content
        /\ Continue(p, n)
        /\ UNCHANGED <<images, children, strayed, refs, byID, saved, layers, held, cont>>
    BY DEF FsDelete, Then, refdb, layerdb
  <1>2. /\ op[p] \in Ops /\ OpOK(op[p]) /\ op[p].todo \in Todos /\ op[p].todo # <<>> /\ i \in Images
        /\ Head(op[p].todo) = "fsdelete"
    BY <1>1 DEF At, ImageInv, OpsOK, OpOK, Ops
  <1>3. op[p].todo \in Deleting /\ op[p].todo \notin Making
    BY <1>2, Apart
  <1>4. Tail(op[p].todo) = <<"lrelease">>
    BY <1>2, <1>3, DeletingStep
  <1>5. ~op[p].holds /\ op[p].c = {}
    BY <1>2, <1>3, HoldingStep DEF OpOK
  <1>6. /\ <<"lrelease">> \in Todos /\ <<"lrelease">> \in Deleting /\ <<"lrelease">> \notin Holding
        /\ <<"lrelease">> \notin Cached /\ <<"lrelease">> \notin Making /\ <<"lrelease">> # <<>>
    <2>1. Head(<<"lrelease">>) = "lrelease"
      OBVIOUS
    <2> QED BY <2>1, Apart, HoldingStep, CachedStep, MakingStep DEF Todos
  <1>7. /\ n \in Ops /\ n.todo = <<"lrelease">> /\ (n.holds <=> op[p].holds)
        /\ n.c = op[p].c /\ n.i = i
    BY <1>2, <1>4, <1>6 DEF Ops
  <1> HIDE DEF n
  <1>8. OpOK(n)
    BY <1>2, <1>5, <1>6, <1>7 DEF OpOK
  <1>9. op' = [op EXCEPT ![p] = n]
    BY <1>1, <1>6, <1>7 DEF Continue, Go
  <1>10. OpsOK' /\ DOMAIN op' = Procs /\ op'[p] = n /\ \A q \in Procs : q # p => op'[q] = op[q]
    BY <1>8, <1>9, OpsKept DEF ImageInv
  <1>11. ContOK'
    BY <1>1, <1>3, <1>5, <1>6, <1>7, <1>8, <1>9, ContKept
  <1>12. LayersOK' /\ RefsIndexed'
    BY <1>1 DEF LayersOK, RefsIndexed, ImageInv
  <1>13. ASSUME NEW l \in Layers
         PROVE  Exact(l)'
    <2>1. Exact(l)
      BY ExactIs DEF ImageInv
    <2>2. ImgHolders(l)' = ImgHolders(l) /\ ContHolders(l)' = ContHolders(l)
      BY <1>1 DEF ImgHolders, ContHolders
    <2>3. ReqHolders(l)' = ReqHolders(l)
      BY <1>5, <1>7, <1>10 DEF ReqHolders
    <2>4. DelHolders(l)' = DelHolders(l)
      BY <1>3, <1>6, <1>7, <1>10 DEF DelHolders
    <2> QED BY <1>1, <2>1, <2>2, <2>3, <2>4 DEF Exact
  <1>14. LayerRefsExact'
    BY <1>10, <1>13, ExactAll
  <1>15. DelOK'
    BY <1>1, <1>3, <1>7, <1>10 DEF DelOK, ImageInv
  <1>16. parent \in [Images -> Images \cup {NoImage}]
    BY DEF ImageInv, TypeOK
  <1>17. \A j \in Images : j # i /\ FsDeleting(j) => FsDeleting(j)'
    BY <1>10 DEF FsDeleting, At
  <1>18. \A j \in Images : parent'[j] = IF j = i THEN NoImage ELSE parent[j]
    BY <1>1, <1>2, <1>16
  <1>19. ParentsOK'
    BY <1>1, <1>17, <1>18 DEF ParentsOK, ImageInv
  <1>20. TypeOK'
    BY <1>1, <1>2, <1>10, <1>16 DEF TypeOK, ImageInv
  <1> QED BY <1>10, <1>11, <1>12, <1>14, <1>15, <1>19, <1>20 DEF ImageInv

\* The end of a deletion releases the layer of the image that is gone.
LEMMA DeleteReleaseKeeps ==
  ASSUME ImageInv, NEW p \in Procs, DeleteRelease(p)
  PROVE  ImageInv'
  <1>1. At(p, "lrelease") /\ Release(LayerOf[op[p].i]) /\ UNCHANGED <<imagedb, refdb, cont>>
    BY DEF DeleteRelease
  <1>2. /\ op[p] \in Ops /\ OpOK(op[p]) /\ op[p].todo \in Todos /\ op[p].todo # <<>> /\ op[p].i \in Images
        /\ Head(op[p].todo) = "lrelease"
    BY <1>1 DEF At, ImageInv, OpsOK, OpOK, Ops
  <1>3. op[p].todo \in Deleting /\ op[p].todo \notin Making
    BY <1>2, Apart
  <1>4. ~op[p].holds /\ op[p].c = {}
    BY <1>2, <1>3, HoldingStep DEF OpOK
  <1>5. <<>> \in Plain /\ <<"check">> \in Plain /\ <<>> \in Todos /\ <<"check">> \in Todos
    BY DEF Plain, Todos
  <1>6. PICK o : Continue(p, o) /\ OpOK(o) /\ ~o.holds /\ o.c = {} /\ o.todo \notin Deleting \cup Making
    <2>1. CASE /\ op[p].up # NoImage
               /\ Continue(p, [op[p] EXCEPT !.i = op[p].up, !.up = NoImage, !.force = FALSE, !.deep = TRUE,
                                            !.todo = <<"check">>])
      <3> DEFINE o == [op[p] EXCEPT !.i = op[p].up, !.up = NoImage, !.force = FALSE, !.deep = TRUE,
                                    !.todo = <<"check">>]
      <3>1. /\ o \in Ops /\ o.todo = <<"check">> /\ (o.holds <=> op[p].holds) /\ o.c = op[p].c
            /\ o.i = op[p].up /\ op[p].up \in Images
        BY <1>2, <1>5, <2>1 DEF Ops
      <3>2. Continue(p, o)
        BY <2>1
      <3> HIDE DEF o
      <3> QED BY <1>4, <1>5, <3>1, <3>2, RequestInOrder
    <2>2. CASE Continue(p, [op[p] EXCEPT !.todo = <<>>, !.up = NoImage])
      <3> DEFINE o == [op[p] EXCEPT !.todo = <<>>, !.up = NoImage]
      <3>1. o \in Ops /\ o.todo = <<>> /\ (o.holds <=> op[p].holds) /\ o.c = op[p].c
        BY <1>2, <1>5 DEF Ops
      <3>2. Continue(p, o)
        BY <2>2
      <3> HIDE DEF o
      <3> QED BY <1>4, <1>5, <3>1, <3>2, RequestInOrder
    <2> QED BY <2>1, <2>2 DEF DeleteRelease
  <1>7. PICK n : /\ op' = [op EXCEPT ![p] = n] /\ OpOK(n) /\ n.todo = o.todo
                 /\ n = Idle \/ n = o
    BY <1>6, ContinueOp DEF ImageInv
  <1>8. ~n.holds /\ n.c = {} /\ n.todo \notin Deleting \cup Making
    BY <1>6, <1>7, IdleOK
  <1>9. OpsOK' /\ DOMAIN op' = Procs /\ op'[p] = n /\ \A q \in Procs : q # p => op'[q] = op[q]
    BY <1>7, OpsKept DEF ImageInv
  <1>10. ContOK'
    BY <1>1, <1>3, <1>7, <1>8, ContKept
  <1>11. LayerOf[op[p].i] \in Layers /\ held[LayerOf[op[p].i]] > 0
    BY <1>2, <1>3, LayerAssumption, HolderCounts
  <1>12. /\ LayersOK' /\ layers' \in SUBSET Layers /\ held' \in [Layers -> Nat]
         /\ \A k \in Layers : held'[k] = IF k = LayerOf[op[p].i] THEN held[k] - 1 ELSE held[k]
    BY <1>1, <1>11, ReleaseKeepsLayers DEF ImageInv
  <1>13. UNCHANGED <<images, children, content, parent, strayed, refs, byID, saved, cont>>
    BY <1>1 DEF imagedb, refdb
  <1>14. ASSUME NEW l \in Layers
         PROVE  Exact(l)'
    <2>1. ImgHolders(l)' = ImgHolders(l) /\ ContHolders(l)' = ContHolders(l)
      BY <1>13 DEF ImgHolders, ContHolders
    <2>2. Cardinality(DelHolders(l)') = Cardinality(DelHolders(l))
           + (IF n.todo \in Deleting THEN One(l, n.i) ELSE 0)
           - (IF op[p].todo \in Deleting THEN One(l, op[p].i) ELSE 0)
      BY <1>7, DelCount DEF ImageInv
    <2>3. ReqHolders(l)' = ReqHolders(l)
      BY <1>4, <1>8, <1>9 DEF ReqHolders
    <2>4. /\ Cardinality(ImgHolders(l)) \in Nat /\ Cardinality(ContHolders(l)) \in Nat
          /\ Cardinality(ReqHolders(l)) \in Nat /\ Cardinality(DelHolders(l)) \in Nat
          /\ One(l, op[p].i) \in Nat /\ held[l] \in Nat
      BY HoldersFinite DEF ImageInv, TypeOK, One
    <2>5. Cardinality(DelHolders(l)') = Cardinality(DelHolders(l)) + (0 - One(l, op[p].i))
      BY <1>3, <1>8, <2>2, <2>4
    <2>6. held'[l] = held[l] + (0 + 0 + 0 + (0 - One(l, op[p].i)))
      BY <1>12, <2>4 DEF One
    <2>7. /\ Cardinality(ImgHolders(l)') = Cardinality(ImgHolders(l)) + 0
          /\ Cardinality(ContHolders(l)') = Cardinality(ContHolders(l)) + 0
          /\ Cardinality(ReqHolders(l)') = Cardinality(ReqHolders(l)) + 0
          /\ 0 - One(l, op[p].i) \in Int
      BY <2>1, <2>3, <2>4
    <2> QED BY <2>5, <2>6, <2>7, ExactStep
  <1>15. LayerRefsExact'
    BY <1>9, <1>14, ExactAll
  <1>16. DelOK' /\ RefsIndexed'
    BY <1>8, <1>9, <1>13 DEF DelOK, RefsIndexed, ImageInv
  <1>17. ParentsOK'
    <2>1. ~At(p, "fsdelete")
      BY <1>2 DEF At
    <2>2. \A j \in Images : FsDeleting(j) => FsDeleting(j)'
      BY <1>9, <2>1 DEF FsDeleting, At
    <2> QED BY <1>13, <2>2 DEF ParentsOK, ImageInv
  <1>18. TypeOK'
    BY <1>9, <1>12, <1>13 DEF TypeOK, ImageInv
  <1> QED BY <1>9, <1>10, <1>12, <1>15, <1>16, <1>17, <1>18 DEF ImageInv
-------------------------------------------------------------------------------
(* Containers and restarts                                                     *)

\* A container's creation starts with an image that exists, or takes none.
LEMMA CreateContainerKeeps ==
  ASSUME ImageInv, NEW p \in Procs, CreateContainer(p)
  PROVE  ImageInv'
  <1>1. PICK c \in Containers, i \in content :
          /\ cont[c] = NoCont
          /\ \A q \in Procs : c \notin op[q].c
          /\ op' = [op EXCEPT ![p] = [Idle EXCEPT !.do = "container", !.i = i, !.c = {c},
                                                 !.todo = <<"rwlayer", "register">>]]
    BY DEF CreateContainer, Go
  <1> DEFINE n == [Idle EXCEPT !.do = "container", !.i = i, !.c = {c}, !.todo = <<"rwlayer", "register">>]
  <1>2. op[p] = Idle /\ UNCHANGED <<imagedb, refdb, layerdb, cont>>
    BY DEF CreateContainer
  <1>3. <<"rwlayer", "register">> \in Making /\ <<"rwlayer", "register">> # <<>>
    BY DEF Making
  <1>4. /\ <<"rwlayer", "register">> \in Todos /\ <<"rwlayer", "register">> \notin Holding
        /\ <<"rwlayer", "register">> \notin Cached /\ <<"rwlayer", "register">> \notin Deleting
    <2>1. Head(<<"rwlayer", "register">>) = "rwlayer"
      OBVIOUS
    <2> QED BY <1>3, <2>1, HoldingStep, CachedStep, DeletingStep DEF Todos
  <1>5. Idle \in Ops /\ i \in Images /\ {c} \in SUBSET Containers /\ "container" \in Dos
    BY IdleOK DEF OpOK, ImageInv, TypeOK, Dos
  <1>6. /\ n \in Ops /\ n.todo = <<"rwlayer", "register">> /\ (n.holds <=> Idle.holds)
        /\ n.c = {c} /\ n.i = i /\ n.names = Idle.names
    BY <1>4, <1>5 DEF Ops
  <1> HIDE DEF n
  <1>7. OpOK(n) /\ ~n.holds
    BY <1>3, <1>4, <1>5, <1>6, IdleOK DEF OpOK
  <1>8. op' = [op EXCEPT ![p] = n]
    BY <1>1 DEF n
  <1>9. OpsOK' /\ DOMAIN op' = Procs /\ op'[p] = n /\ \A q \in Procs : q # p => op'[q] = op[q]
    BY <1>7, <1>8, OpsKept DEF ImageInv
  <1>10. UNCHANGED <<images, children, content, parent, strayed, refs, byID, saved, layers, held, cont>>
    BY <1>2 DEF imagedb, refdb, layerdb
  <1>11. op[p].todo \notin Deleting \cup Making /\ ~op[p].holds
    BY <1>2, IdleOK, Apart
  <1>12. ContOK'
    <2>1. Head(n.todo) = "rwlayer"
      BY <1>6
    <2>2. cont'[c].st = "none"
      BY <1>1, <1>10 DEF NoCont
    <2>3. ASSUME NEW q \in Procs, NEW k \in op'[q].c
          PROVE  /\ op'[q].c = {k} /\ op'[q].todo \in Making
                 /\ At(q, "rwlayer")' => cont'[k].st = "none"
                 /\ At(q, "register")' => cont'[k].st = "layer"
      <3>1. CASE q = p
        BY <1>3, <1>6, <1>9, <2>1, <2>2, <3>1 DEF At
      <3>2. CASE q # p
        BY <1>9, <1>10, <3>2 DEF At, ContOK, ImageInv
      <3> QED BY <3>1, <3>2
    <2>4. ASSUME NEW q \in Procs, NEW k \in Procs, q # k
          PROVE  op'[q].c \cap op'[k].c = {}
      BY <1>1, <1>6, <1>9, <2>4 DEF ContOK, ImageInv
    <2>5. ASSUME NEW q \in Procs, op'[q].todo \in Making
          PROVE  op'[q].c # {}
      BY <1>6, <1>9, <2>5 DEF ContOK, ImageInv
    <2>6. \A k \in Containers : cont'[k].img = NoImage <=> cont'[k].st = "none"
      BY <1>10 DEF ContOK, ImageInv
    <2> QED BY <2>3, <2>4, <2>5, <2>6 DEF ContOK
  <1>13. ASSUME NEW l \in Layers
         PROVE  Exact(l)'
    <2>1. Exact(l)
      BY ExactIs DEF ImageInv
    <2>2. ImgHolders(l)' = ImgHolders(l) /\ ContHolders(l)' = ContHolders(l)
      BY <1>10 DEF ImgHolders, ContHolders
    <2>3. ReqHolders(l)' = ReqHolders(l)
      BY <1>7, <1>9, <1>11 DEF ReqHolders
    <2>4. DelHolders(l)' = DelHolders(l)
      BY <1>4, <1>6, <1>9, <1>11 DEF DelHolders
    <2> QED BY <1>10, <2>1, <2>2, <2>3, <2>4 DEF Exact
  <1>14. LayerRefsExact'
    BY <1>9, <1>13, ExactAll
  <1>15. DelOK' /\ RefsIndexed' /\ LayersOK'
    BY <1>4, <1>6, <1>9, <1>10 DEF DelOK, RefsIndexed, LayersOK, ImageInv
  <1>16. ParentsOK'
    BY <1>9, <1>10, <1>11, ParentsKept
  <1>17. TypeOK'
    BY <1>9, <1>10 DEF TypeOK, ImageInv
  <1> QED BY <1>9, <1>12, <1>14, <1>15, <1>16, <1>17 DEF ImageInv

\* Who is about to get a layer for its container, or has got it.
LEMMA MakesOne ==
  ASSUME ImageInv, NEW p \in Procs, NEW step \in {"rwlayer", "register"}, At(p, step)
  PROVE  /\ op[p] \in Ops /\ OpOK(op[p]) /\ op[p].todo \in Making /\ op[p].todo # <<>> /\ op[p].i \in Images
         /\ ~op[p].holds /\ op[p].todo \notin Deleting /\ op[p].names = {}
         /\ \E c \in Containers : /\ op[p].c = {c}
                                  /\ cont[c].st = IF step = "rwlayer" THEN "none" ELSE "layer"
                                  /\ \A q \in Procs : q # p => c \notin op[q].c
  <1>1. /\ op[p] \in Ops /\ OpOK(op[p]) /\ op[p].todo \in Todos /\ op[p].todo # <<>> /\ op[p].i \in Images
        /\ Head(op[p].todo) = step
    BY DEF At, ImageInv, OpsOK, OpOK, Ops
  <1>2. op[p].todo \in Making /\ op[p].todo \notin Deleting
    BY <1>1, Apart
  <1>3. ~op[p].holds /\ op[p].names = {}
    BY <1>1, <1>2, HoldingStep DEF OpOK
  <1>4. PICK c : c \in op[p].c
    BY <1>2 DEF ContOK, ImageInv
  <1>5. c \in Containers /\ op[p].c = {c} /\ cont[c].st = IF step = "rwlayer" THEN "none" ELSE "layer"
    BY <1>1, <1>4 DEF ContOK, ImageInv, Ops
  <1>6. \A q \in Procs : q # p => c \notin op[q].c
    BY <1>4 DEF ContOK, ImageInv
  <1> QED BY <1>1, <1>2, <1>3, <1>5, <1>6

\* The request for a container ends.
LEMMA ContainerEnds ==
  ASSUME ImageInv, NEW p \in Procs, NEW step \in {"rwlayer", "register"}, At(p, step),
         op' = [op EXCEPT ![p] = Idle], NEW c \in Containers, op[p].c = {c}, DOMAIN cont' = Containers,
         \A k \in Containers : k # c => cont'[k] = cont[k],
         cont'[c].img = NoImage <=> cont'[c].st = "none",
         \A q \in Procs : q # p => c \notin op[q].c
  PROVE  /\ OpsOK' /\ DOMAIN op' = Procs /\ ContOK'
         /\ \A q \in Procs : q # p => op'[q] = op[q]
         /\ UNCHANGED images => DelOK'
         /\ \A l \in Layers : ReqHolders(l)' = ReqHolders(l) /\ DelHolders(l)' = DelHolders(l)
  <1>1. /\ op[p] \in Ops /\ op[p].todo \in Making /\ op[p].todo # <<>>
        /\ ~op[p].holds /\ op[p].todo \notin Deleting
    BY MakesOne
  <1>2. OpsOK' /\ DOMAIN op' = Procs /\ op'[p] = Idle /\ \A q \in Procs : q # p => op'[q] = op[q]
    BY IdleOK, OpsKept DEF ImageInv
  <1>3. Idle.todo \notin Making \cup Deleting /\ ~Idle.holds /\ Idle.c = {}
    BY IdleOK, Apart
  <1>4. ContOK'
    <2>1. ASSUME NEW q \in Procs, NEW k \in op'[q].c
          PROVE  /\ op'[q].c = {k} /\ op'[q].todo \in Making
                 /\ At(q, "rwlayer")' => cont'[k].st = "none"
                 /\ At(q, "register")' => cont'[k].st = "layer"
      <3>1. q # p /\ op'[q] = op[q]
        BY <1>2, <1>3
      <3>2. k # c /\ k \in Containers
        BY <3>1 DEF ImageInv, OpsOK, Ops
      <3> QED BY <3>1, <3>2 DEF At, ContOK, ImageInv
    <2>2. ASSUME NEW q \in Procs, NEW k \in Procs, q # k
          PROVE  op'[q].c \cap op'[k].c = {}
      BY <1>2, <1>3, <2>2 DEF ContOK, ImageInv
    <2>3. ASSUME NEW q \in Procs, op'[q].todo \in Making
          PROVE  op'[q].c # {}
      BY <1>2, <1>3, <2>3 DEF ContOK, ImageInv
    <2>4. \A k \in Containers : cont'[k].img = NoImage <=> cont'[k].st = "none"
      BY DEF ContOK, ImageInv
    <2> QED BY <2>1, <2>2, <2>3, <2>4 DEF ContOK
  <1>5. UNCHANGED images => DelOK'
    BY <1>2, <1>3 DEF DelOK, ImageInv
  <1>6. \A l \in Layers : ReqHolders(l)' = ReqHolders(l) /\ DelHolders(l)' = DelHolders(l)
    BY <1>1, <1>2, <1>3 DEF ReqHolders, DelHolders
  <1> QED BY <1>2, <1>4, <1>5, <1>6

\* A writable layer counts as a reference to the layers of its image if these are still there.
LEMMA SetRWLayerKeeps ==
  ASSUME ImageInv, NEW p \in Procs, SetRWLayer(p)
  PROVE  ImageInv'
  <1> DEFINE i == op[p].i
  <1>1. At(p, "rwlayer") /\ UNCHANGED <<imagedb, refdb, layers>>
    BY DEF SetRWLayer
  <1>2. /\ op[p] \in Ops /\ OpOK(op[p]) /\ op[p].todo \in Making /\ op[p].todo # <<>> /\ i \in Images
        /\ ~op[p].holds /\ op[p].todo \notin Deleting /\ op[p].names = {}
    BY <1>1, MakesOne
  <1>3. PICK c \in Containers : /\ op[p].c = {c} /\ cont[c].st = "none"
                                /\ \A q \in Procs : q # p => c \notin op[q].c
    BY <1>1, MakesOne
  <1>4. UNCHANGED <<images, children, content, parent, strayed, refs, byID, saved, layers>>
    BY <1>1 DEF imagedb, refdb
  <1>5. CASE Abort(p) /\ UNCHANGED <<held, cont>>
    <2>1. op' = [op EXCEPT ![p] = Idle]
      <3>1. [op[p] EXCEPT !.todo = <<>>, !.rs = {}].todo = <<>> /\ [op[p] EXCEPT !.todo = <<>>, !.rs = {}].names = {}
        BY <1>2 DEF Ops
      <3> QED BY <1>2, <1>5, <3>1 DEF Abort, Continue, Go
    <2>2. DOMAIN cont = Containers /\ (cont[c].img = NoImage <=> cont[c].st = "none")
      BY DEF ImageInv, TypeOK, ContOK
    <2>3. /\ OpsOK' /\ DOMAIN op' = Procs /\ ContOK' /\ DelOK'
          /\ \A q \in Procs : q # p => op'[q] = op[q]
          /\ \A l \in Layers : ReqHolders(l)' = ReqHolders(l) /\ DelHolders(l)' = DelHolders(l)
      BY <1>1, <1>3, <1>4, <1>5, <2>1, <2>2, ContainerEnds
    <2>4. ASSUME NEW l \in Layers
          PROVE  Exact(l)'
      <3>1. Exact(l)
        BY ExactIs DEF ImageInv
      <3>2. ImgHolders(l)' = ImgHolders(l) /\ ContHolders(l)' = ContHolders(l)
        BY <1>4, <1>5 DEF ImgHolders, ContHolders
      <3> QED BY <1>5, <2>3, <3>1, <3>2 DEF Exact
    <2>5. LayerRefsExact'
      BY <2>3, <2>4, ExactAll
    <2>6. LayersOK' /\ RefsIndexed'
      BY <1>4, <1>5 DEF LayersOK, RefsIndexed, ImageInv
    <2>7. ParentsOK'
      BY <1>2, <1>4, <2>3, ParentsKept
    <2>8. TypeOK'
      BY <1>4, <1>5, <2>3 DEF TypeOK, ImageInv
    <2> QED BY <2>3, <2>5, <2>6, <2>7, <2>8 DEF ImageInv
  <1>6. CASE /\ LayerOf[i] \in layers /\ held' = [held EXCEPT ![LayerOf[i]] = @ + 1]
             /\ cont' = [k \in Containers |-> IF k \in op[p].c THEN [img |-> i, st |-> "layer"] ELSE cont[k]]
             /\ Then(p)
    <2> DEFINE n == [op[p] EXCEPT !.todo = Tail(@)]
    <2>1. Head(op[p].todo) = "rwlayer"
      BY <1>1 DEF At
    <2>2. Tail(op[p].todo) = <<"register">>
      BY <1>2, <2>1, MakingStep
    <2>3. /\ <<"register">> \in Making /\ <<"register">> \in Todos /\ <<"register">> # <<>>
          /\ <<"register">> \notin Holding /\ <<"register">> \notin Cached /\ <<"register">> \notin Deleting
      <3>1. Head(<<"register">>) = "register"
        OBVIOUS
      <3> QED BY <3>1, Apart, HoldingStep, CachedStep, DeletingStep DEF Todos
    <2>4. /\ n \in Ops /\ n.todo = <<"register">> /\ (n.holds <=> op[p].holds)
          /\ n.c = op[p].c /\ n.i = i /\ n.names = op[p].names
      BY <1>2, <2>2, <2>3 DEF Ops
    <2>5. Continue(p, n)
      BY <1>6 DEF Then
    <2> HIDE DEF n
    <2>6. OpOK(n) /\ op' = [op EXCEPT ![p] = n]
      <3>1. OpOK(n)
        BY <1>2, <2>3, <2>4 DEF OpOK
      <3> QED BY <2>3, <2>4, <2>5, <3>1 DEF Continue, Go
    <2>7. OpsOK' /\ DOMAIN op' = Procs /\ op'[p] = n /\ \A q \in Procs : q # p => op'[q] = op[q]
      BY <2>6, OpsKept DEF ImageInv
    <2>8. /\ cont'[c] = [img |-> i, st |-> "layer"] /\ \A k \in Containers : k # c => cont'[k] = cont[k]
          /\ DOMAIN cont' = Containers
      BY <1>3, <1>6
    <2>9. i # NoImage /\ cont'[c].img = i /\ cont'[c].st = "layer"
      BY <1>2, <2>8, BaseAssumption
    <2>10. ContOK'
      <3>1. ASSUME NEW q \in Procs, NEW k \in op'[q].c
            PROVE  /\ op'[q].c = {k} /\ op'[q].todo \in Making
                   /\ At(q, "rwlayer")' => cont'[k].st = "none"
                   /\ At(q, "register")' => cont'[k].st = "layer"
        <4>1. CASE q = p
          <5>1. Head(n.todo) = "register"
            BY <2>4
          <5> QED BY <1>3, <2>3, <2>4, <2>7, <2>9, <4>1, <5>1 DEF At
        <4>2. CASE q # p
          <5>1. op'[q] = op[q] /\ k # c /\ k \in Containers
            BY <1>3, <2>7, <4>2 DEF ImageInv, OpsOK, Ops
          <5> QED BY <2>8, <5>1 DEF At, ContOK, ImageInv
        <4> QED BY <4>1, <4>2
      <3>2. ASSUME NEW q \in Procs, NEW k \in Procs, q # k
            PROVE  op'[q].c \cap op'[k].c = {}
        BY <2>4, <2>7, <3>2 DEF ContOK, ImageInv
      <3>3. ASSUME NEW q \in Procs, op'[q].todo \in Making
            PROVE  op'[q].c # {}
        BY <1>3, <2>4, <2>7, <3>3 DEF ContOK, ImageInv
      <3>4. \A k \in Containers : cont'[k].img = NoImage <=> cont'[k].st = "none"
        BY <2>8, <2>9 DEF ContOK, ImageInv
      <3> QED BY <3>1, <3>2, <3>3, <3>4 DEF ContOK
    <2>11. LayerOf[i] \in Layers
      BY <1>2, LayerAssumption
    <2>12. /\ LayersOK' /\ layers' \in SUBSET Layers /\ held' \in [Layers -> Nat]
           /\ \A k \in Layers : held'[k] = IF k = LayerOf[i] THEN held[k] + 1 ELSE held[k]
      BY <1>4, <1>6, <2>11, HoldKeepsLayers DEF ImageInv
    <2>13. ASSUME NEW l \in Layers
           PROVE  Exact(l)'
      <3>1. ImgHolders(l)' = ImgHolders(l)
        BY <1>4 DEF ImgHolders
      <3>2. Cardinality(ContHolders(l)') = Cardinality(ContHolders(l)) + One(l, i)
        <4>1. cont[c] = NoCont
          BY <1>3 DEF ImageInv, TypeOK, ContOK, NoCont
        <4>2. cont'[c] # NoCont
          BY <2>9 DEF NoCont
        <4>3. Cardinality(ContHolders(l)') = Cardinality(ContHolders(l)) + One(l, cont'[c].img)
          BY <2>8, <4>1, <4>2, ContCount DEF ImageInv
        <4> QED BY <2>9, <4>3
      <3>3. ReqHolders(l)' = ReqHolders(l) /\ DelHolders(l)' = DelHolders(l)
        BY <1>2, <2>3, <2>4, <2>7 DEF ReqHolders, DelHolders
      <3>4. /\ Cardinality(ImgHolders(l)) \in Nat /\ Cardinality(ContHolders(l)) \in Nat
            /\ Cardinality(ReqHolders(l)) \in Nat /\ Cardinality(DelHolders(l)) \in Nat
            /\ One(l, i) \in Int /\ held[l] \in Nat
        BY HoldersFinite DEF ImageInv, TypeOK, One
      <3>5. held'[l] = held[l] + (0 + One(l, i) + 0 + 0)
        BY <2>12, <3>4 DEF One
      <3>6. /\ Cardinality(ImgHolders(l)') = Cardinality(ImgHolders(l)) + 0
            /\ Cardinality(ReqHolders(l)') = Cardinality(ReqHolders(l)) + 0
            /\ Cardinality(DelHolders(l)') = Cardinality(DelHolders(l)) + 0
        BY <3>1, <3>3, <3>4
      <3> QED BY <3>2, <3>4, <3>5, <3>6, ExactStep
    <2>14. LayerRefsExact'
      BY <2>7, <2>13, ExactAll
    <2>15. DelOK' /\ RefsIndexed'
      BY <1>4, <2>3, <2>4, <2>7 DEF DelOK, RefsIndexed, ImageInv
    <2>16. ParentsOK'
      BY <1>2, <1>4, <2>7, ParentsKept
    <2>17. TypeOK'
      <3>1. cont' \in [Containers -> [img : Images \cup {NoImage}, st : {"none", "layer", "stopped", "running"}]]
        BY <1>2, <1>6 DEF TypeOK, ImageInv
      <3> QED BY <1>4, <2>7, <2>12, <3>1 DEF TypeOK, ImageInv
    <2> QED BY <2>7, <2>10, <2>12, <2>14, <2>15, <2>16, <2>17 DEF ImageInv
  <1> QED BY <1>5, <1>6 DEF SetRWLayer

\* A container that is registered or given up on keeps its writable layer counted.
LEMMA RegisterKeeps ==
  ASSUME ImageInv, NEW p \in Procs, Register(p)
  PROVE  ImageInv'
  <1>1. /\ At(p, "register") /\ Then(p) /\ UNCHANGED <<imagedb, refdb, layerdb>>
        /\ cont' = [c \in Containers |-> IF c \in op[p].c THEN [cont[c] EXCEPT !.st = "stopped"] ELSE cont[c]]
    BY DEF Register
  <1>2. /\ op[p] \in Ops /\ OpOK(op[p]) /\ op[p].todo \in Making /\ op[p].todo # <<>> /\ op[p].i \in Images
        /\ ~op[p].holds /\ op[p].todo \notin Deleting /\ op[p].names = {}
    BY <1>1, MakesOne
  <1>3. PICK c \in Containers : /\ op[p].c = {c} /\ cont[c].st = "layer"
                                /\ \A q \in Procs : q # p => c \notin op[q].c
    BY <1>1, MakesOne
  <1>4. UNCHANGED <<images, children, content, parent, strayed, refs, byID, saved, layers, held>>
    BY <1>1 DEF imagedb, refdb, layerdb
  <1>5. op' = [op EXCEPT ![p] = Idle]
    <2>1. Tail(op[p].todo) = <<>>
      BY <1>1, <1>2, MakingStep DEF At
    <2>2. [op[p] EXCEPT !.todo = Tail(@)].todo = <<>> /\ [op[p] EXCEPT !.todo = Tail(@)].names = {}
      BY <1>2, <2>1 DEF Ops
    <2> QED BY <1>1, <2>2 DEF Then, Continue, Go
  <1>6. cont \in [Containers -> [img : Images \cup {NoImage}, st : {"none", "layer", "stopped", "running"}]]
    BY DEF ImageInv, TypeOK
  <1>7. cont[c].img # NoImage
    BY <1>3 DEF ContOK, ImageInv
  <1>8. /\ cont'[c].img = cont[c].img /\ cont'[c].st = "stopped" /\ DOMAIN cont' = Containers
        /\ \A k \in Containers : k # c => cont'[k] = cont[k]
    BY <1>1, <1>3, <1>6
  <1>9. /\ OpsOK' /\ DOMAIN op' = Procs /\ ContOK' /\ DelOK'
        /\ \A q \in Procs : q # p => op'[q] = op[q]
        /\ \A l \in Layers : ReqHolders(l)' = ReqHolders(l) /\ DelHolders(l)' = DelHolders(l)
    BY <1>1, <1>3, <1>4, <1>5, <1>7, <1>8, ContainerEnds
  <1>10. ASSUME NEW l \in Layers
         PROVE  Exact(l)'
    <2>1. Exact(l)
      BY ExactIs DEF ImageInv
    <2>2. ImgHolders(l)' = ImgHolders(l)
      BY <1>4 DEF ImgHolders
    <2>3. ContHolders(l)' = ContHolders(l)
      <3>1. cont[c] # NoCont /\ cont'[c] # NoCont
        BY <1>7, <1>8 DEF NoCont
      <3>2. NoCont' = NoCont
        BY DEF NoCont
      <3> QED BY <1>8, <3>1, <3>2 DEF ContHolders
    <2> QED BY <1>4, <1>9, <2>1, <2>2, <2>3 DEF Exact
  <1>11. LayerRefsExact'
    BY <1>9, <1>10, ExactAll
  <1>12. LayersOK' /\ RefsIndexed'
    BY <1>4 DEF LayersOK, RefsIndexed, ImageInv
  <1>13. ParentsOK'
    BY <1>2, <1>4, <1>9, ParentsKept
  <1>14. cont' \in [Containers -> [img : Images \cup {NoImage}, st : {"none", "layer", "stopped", "running"}]]
    BY <1>1, <1>6
  <1>15. TypeOK'
    BY <1>4, <1>9, <1>14 DEF TypeOK, ImageInv
  <1> QED BY <1>9, <1>11, <1>12, <1>13, <1>15 DEF ImageInv

\* A container that is not being made changes: the requests stay.
LEMMA ContChange ==
  ASSUME ImageInv, NEW c \in Containers, cont[c].st \in {"stopped", "running"}, DOMAIN cont' = Containers,
         \A k \in Containers : k # c => cont'[k] = cont[k],
         cont'[c].img = NoImage <=> cont'[c].st = "none",
         UNCHANGED <<imagedb, refdb, op>>
  PROVE  /\ OpsOK' /\ ContOK' /\ DelOK' /\ RefsIndexed' /\ ParentsOK'
         /\ UNCHANGED <<images, children, content, parent, strayed, refs, byID, saved, op>>
         /\ \A l \in Layers : /\ ImgHolders(l)' = ImgHolders(l)
                              /\ ReqHolders(l)' = ReqHolders(l) /\ DelHolders(l)' = DelHolders(l)
  <1>1. UNCHANGED <<images, children, content, parent, strayed, refs, byID, saved, op>>
    BY DEF imagedb, refdb
  <1>2. OpsOK' /\ DelOK' /\ RefsIndexed'
    BY <1>1 DEF OpsOK, OpOK, DelOK, RefsIndexed, ImageInv
  <1>3. ParentsOK'
    BY <1>1 DEF ParentsOK, FsDeleting, At, ImageInv
  <1>4. ContOK'
    <2>1. \A p \in Procs : c \notin op[p].c
      <3>1. ASSUME NEW p \in Procs, c \in op[p].c
            PROVE  FALSE
        <4>1. op[p].todo \in Making
          BY <3>1 DEF ContOK, ImageInv
        <4>2. At(p, "rwlayer") \/ At(p, "register")
          BY <4>1, MakingStep DEF At
        <4> QED BY <3>1, <4>2 DEF ContOK, ImageInv
      <3> QED BY <3>1
    <2>2. \A p \in Procs : \A k \in op[p].c : k \in Containers /\ k # c
      BY <2>1 DEF ImageInv, OpsOK, Ops
    <2> QED BY <1>1, <2>2 DEF ContOK, At, ImageInv
  <1>5. \A l \in Layers : /\ ImgHolders(l)' = ImgHolders(l)
                          /\ ReqHolders(l)' = ReqHolders(l) /\ DelHolders(l)' = DelHolders(l)
    BY <1>1 DEF ImgHolders, ReqHolders, DelHolders
  <1> QED BY <1>1, <1>2, <1>3, <1>4, <1>5

\* Starting and stopping a container changes no reference.
LEMMA StartStopKeeps ==
  ASSUME ImageInv, NEW c \in Containers, StartStop(c)
  PROVE  ImageInv'
  <1>1. /\ cont[c].st \in {"stopped", "running"}
        /\ cont' = [cont EXCEPT ![c].st = IF @ = "stopped" THEN "running" ELSE "stopped"]
        /\ UNCHANGED <<imagedb, refdb, op>> /\ UNCHANGED <<layers, held>>
    BY DEF StartStop, layerdb
  <1>2. cont \in [Containers -> [img : Images \cup {NoImage}, st : {"none", "layer", "stopped", "running"}]]
    BY DEF ImageInv, TypeOK
  <1>3. cont[c].img # NoImage
    BY <1>1 DEF ContOK, ImageInv
  <1>4. /\ cont'[c].img = cont[c].img /\ cont'[c].st # "none" /\ DOMAIN cont' = Containers
        /\ \A k \in Containers : k # c => cont'[k] = cont[k]
        /\ cont' \in [Containers -> [img : Images \cup {NoImage}, st : {"none", "layer", "stopped", "running"}]]
    BY <1>1, <1>2
  <1>5. /\ OpsOK' /\ ContOK' /\ DelOK' /\ RefsIndexed' /\ ParentsOK'
        /\ UNCHANGED <<images, children, content, parent, strayed, refs, byID, saved, op>>
        /\ \A l \in Layers : /\ ImgHolders(l)' = ImgHolders(l)
                             /\ ReqHolders(l)' = ReqHolders(l) /\ DelHolders(l)' = DelHolders(l)
    BY <1>1, <1>3, <1>4, ContChange
  <1>6. ASSUME NEW l \in Layers
        PROVE  Exact(l)'
    <2>1. Exact(l)
      BY ExactIs DEF ImageInv
    <2>2. ContHolders(l)' = ContHolders(l)
      <3>1. cont[c] # NoCont /\ cont'[c] # NoCont
        BY <1>3, <1>4 DEF NoCont
      <3>2. NoCont' = NoCont
        BY DEF NoCont
      <3> QED BY <1>4, <3>1, <3>2 DEF ContHolders
    <2> QED BY <1>1, <1>5, <2>1, <2>2 DEF Exact
  <1>7. LayerRefsExact'
    BY <1>5, <1>6, ExactAll
  <1>8. LayersOK'
    BY <1>1 DEF LayersOK, ImageInv
  <1>9. TypeOK'
    BY <1>1, <1>4, <1>5 DEF TypeOK, ImageInv
  <1> QED BY <1>5, <1>7, <1>8, <1>9 DEF ImageInv

\* Removing a container releases its writable layer, once.
LEMMA RemoveContainerKeeps ==
  ASSUME ImageInv, NEW c \in Containers, RemoveContainer(c)
  PROVE  ImageInv'
  <1>1. /\ cont[c].st = "stopped" /\ Release(LayerOf[cont[c].img])
        /\ cont' = [cont EXCEPT ![c] = NoCont] /\ UNCHANGED <<imagedb, refdb, op>>
    BY DEF RemoveContainer
  <1>2. cont \in [Containers -> [img : Images \cup {NoImage}, st : {"none", "layer", "stopped", "running"}]]
    BY DEF ImageInv, TypeOK
  <1>3. cont[c].img \in Images /\ cont[c] # NoCont
    BY <1>1, <1>2 DEF ContOK, ImageInv, NoCont
  <1>4. /\ cont'[c] = NoCont /\ DOMAIN cont' = Containers
        /\ \A k \in Containers : k # c => cont'[k] = cont[k]
    BY <1>1, <1>2
  <1>5. cont'[c].img = NoImage /\ cont'[c].st = "none"
    BY <1>4 DEF NoCont
  <1>6. cont' \in [Containers -> [img : Images \cup {NoImage}, st : {"none", "layer", "stopped", "running"}]]
    BY <1>1, <1>2 DEF NoCont
  <1>7. /\ OpsOK' /\ ContOK' /\ DelOK' /\ RefsIndexed' /\ ParentsOK'
        /\ UNCHANGED <<images, children, content, parent, strayed, refs, byID, saved, op>>
        /\ \A l \in Layers : /\ ImgHolders(l)' = ImgHolders(l)
                             /\ ReqHolders(l)' = ReqHolders(l) /\ DelHolders(l)' = DelHolders(l)
    BY <1>1, <1>4, <1>5, ContChange
  <1> DEFINE m == LayerOf[cont[c].img]
  <1>8. m \in Layers /\ held[m] > 0
    BY <1>3, LayerAssumption, HolderCounts
  <1>9. /\ LayersOK' /\ layers' \in SUBSET Layers /\ held' \in [Layers -> Nat]
        /\ \A k \in Layers : held'[k] = IF k = m THEN held[k] - 1 ELSE held[k]
    BY <1>1, <1>8, ReleaseKeepsLayers DEF ImageInv
  <1>10. ASSUME NEW l \in Layers
         PROVE  Exact(l)'
    <2>1. Cardinality(ContHolders(l)') = Cardinality(ContHolders(l)) - One(l, cont[c].img)
      BY <1>3, <1>4, ContCount DEF ImageInv
    <2>2. /\ Cardinality(ImgHolders(l)) \in Nat /\ Cardinality(ContHolders(l)) \in Nat
          /\ Cardinality(ReqHolders(l)) \in Nat /\ Cardinality(DelHolders(l)) \in Nat
          /\ One(l, cont[c].img) \in Nat /\ held[l] \in Nat
      BY HoldersFinite DEF ImageInv, TypeOK, One
    <2>3. held'[l] = held[l] + (0 + (0 - One(l, cont[c].img)) + 0 + 0)
      BY <1>9, <2>2 DEF One
    <2>4. /\ Cardinality(ImgHolders(l)') = Cardinality(ImgHolders(l)) + 0
          /\ Cardinality(ContHolders(l)') = Cardinality(ContHolders(l)) + (0 - One(l, cont[c].img))
          /\ Cardinality(ReqHolders(l)') = Cardinality(ReqHolders(l)) + 0
          /\ Cardinality(DelHolders(l)') = Cardinality(DelHolders(l)) + 0
          /\ 0 - One(l, cont[c].img) \in Int
      BY <1>7, <2>1, <2>2
    <2> QED BY <2>3, <2>4, ExactStep
  <1>11. LayerRefsExact'
    BY <1>7, <1>10, ExactAll
  <1>12. TypeOK'
    BY <1>6, <1>7, <1>9 DEF TypeOK, ImageInv
  <1> QED BY <1>7, <1>9, <1>11, <1>12 DEF ImageInv

\* A restart drops what was under way and counts afresh from what it finds on disk.
LEMMA RestartKeeps ==
  ASSUME ImageInv, Restart
  PROVE  ImageInv'
  <1>1. /\ Restorable /\ images' = content
        /\ children' = [q \in Images |-> IF q \in content THEN {i \in content : parent[i] = q} ELSE {}]
        /\ refs' = saved /\ byID' = [i \in Images |-> {r \in Refs : saved[r] = i}]
        /\ held' = [l \in Layers |-> Cardinality({i \in content : LayerOf[i] = l})
                      + Cardinality({c \in Containers : cont[c] # NoCont /\ LayerOf[cont[c].img] = l})]
        /\ op' = [p \in Procs |-> Idle]
        /\ strayed' = {i \in content : parent[i] \notin content \cup {NoImage}}
        /\ UNCHANGED <<content, parent, saved, layers, cont>>
    BY DEF Restart
  <1>2. TypeOK
    BY DEF ImageInv
  <1>3. OpsOK' /\ DOMAIN op' = Procs
    BY <1>1, IdleOK DEF OpsOK, OpOK
  <1>4. \A p \in Procs : op'[p].c = {} /\ op'[p].todo \notin Deleting \cup Making /\ ~op'[p].holds
    <2>1. Idle.todo \notin Deleting \cup Making /\ ~Idle.holds /\ Idle.c = {}
      BY IdleOK, Apart
    <2> QED BY <1>1, <2>1
  <1>5. ContOK' /\ DelOK'
    BY <1>1, <1>4 DEF ContOK, DelOK, ImageInv
  <1>6. \A l \in Layers : ReqHolders(l)' = {} /\ DelHolders(l)' = {}
    BY <1>4 DEF ReqHolders, DelHolders
  <1>7. \A l \in Layers : ImgHolders(l)' = {i \in content : LayerOf[i] = l} /\ ContHolders(l)' = ContHolders(l)
    BY <1>1 DEF ImgHolders, ContHolders, NoCont
  <1>8. \A l \in Layers : /\ IsFiniteSet(ImgHolders(l)') /\ Cardinality(ImgHolders(l)') \in Nat
                          /\ IsFiniteSet(ContHolders(l)) /\ Cardinality(ContHolders(l)) \in Nat
    <2>1. \A l \in Layers : ImgHolders(l)' \in SUBSET Images
      BY <1>2, <1>7 DEF TypeOK
    <2>2. \A l \in Layers : IsFiniteSet(ImgHolders(l)')
      BY <2>1, FiniteAssumption, FS_Subset
    <2> QED BY <1>2, <2>2, HoldersFinite, FS_CardinalityType
  <1>9. \A l \in Layers : held'[l] = Cardinality(ImgHolders(l)') + Cardinality(ContHolders(l))
    BY <1>1, <1>7 DEF ContHolders
  <1>10. \A l \in Layers : Exact(l)'
    <2>1. Cardinality({}) = 0
      BY FS_EmptySet
    <2>2. ASSUME NEW l \in Layers
          PROVE  Exact(l)'
      <3>1. Cardinality(ReqHolders(l)') = 0 /\ Cardinality(DelHolders(l)') = 0
        BY <1>6, <2>1
      <3>2. Cardinality(ContHolders(l)') = Cardinality(ContHolders(l))
        BY <1>7
      <3>3. Cardinality(ImgHolders(l)') \in Nat /\ Cardinality(ContHolders(l)) \in Nat
        BY <1>8
      <3> QED BY <1>9, <3>1, <3>2, <3>3 DEF Exact
    <2> QED BY <2>2
  <1>11. LayerRefsExact'
    BY <1>3, <1>10, ExactAll
  <1>12. held' \in [Layers -> Nat]
    <2>1. \A l \in Layers : held'[l] \in Nat
      BY <1>8, <1>9
    <2> QED BY <1>1, <2>1
  <1>13. LayersOK'
    <2>1. ASSUME NEW l \in Layers, held'[l] > 0
          PROVE  Stack[l] \subseteq layers'
      <3>1. ImgHolders(l)' # {} \/ ContHolders(l) # {}
        <4>1. Cardinality(ImgHolders(l)') # 0 \/ Cardinality(ContHolders(l)) # 0
          BY <1>8, <1>9, <2>1
        <4> QED BY <1>8, <4>1, FS_EmptySet
      <3>2. CASE ImgHolders(l)' # {}
        BY <1>1, <1>7, <3>2 DEF Restorable, LayersOK, ImageInv
      <3>3. CASE ContHolders(l) # {}
        <4>1. held[l] > 0
          BY <3>3, HolderCounts DEF ContHolders
        <4> QED BY <1>1, <4>1 DEF LayersOK, ImageInv
      <3> QED BY <3>1, <3>2, <3>3
    <2> QED BY <1>1, <2>1 DEF LayersOK, ImageInv
  <1>14. RefsIndexed'
    BY <1>1 DEF RefsIndexed
  <1>15. parent \in [Images -> Images \cup {NoImage}] /\ content \in SUBSET Images
    BY <1>2 DEF TypeOK
  <1>16. ParentsOK'
    BY <1>1, <1>15 DEF ParentsOK, ImageInv
  <1>17. TypeOK'
    BY <1>1, <1>2, <1>3, <1>12 DEF TypeOK
  <1> QED BY <1>3, <1>5, <1>11, <1>13, <1>14, <1>16, <1>17 DEF ImageInv
-------------------------------------------------------------------------------
(* The theorems                                                                *)

\* The daemon starts with empty stores.
LEMMA InitImageInv == Init => ImageInv
  <1> SUFFICES ASSUME Init PROVE ImageInv
    OBVIOUS
  <1>1. Idle \in Ops /\ OpOK(Idle) /\ Idle.todo = <<>> /\ ~Idle.holds /\ Idle.c = {}
    BY IdleOK DEF OpOK
  <1>2. op = [p \in Procs |-> Idle]
    BY DEF Init
  <1>3. TypeOK
    BY DEF Init, TypeOK, NoCont
  <1>4. OpsOK
    BY <1>1, <1>2 DEF OpsOK
  <1>5. \A p \in Procs : op[p].c = {} /\ op[p].todo \notin Deleting \cup Making /\ ~op[p].holds
    BY <1>1, <1>2, Apart
  <1>6. RefsIndexed
    BY BaseAssumption DEF Init, RefsIndexed
  <1>7. ContOK
    BY <1>5 DEF ContOK, Init, NoCont
  <1>8. LayersOK
    BY DEF LayersOK, Init
  <1>9. LayerRefsExact
    <2>1. ASSUME NEW l \in Layers
          PROVE  Exact(l)
      <3>1. ImgHolders(l) = {} /\ ContHolders(l) = {} /\ ReqHolders(l) = {} /\ DelHolders(l) = {}
        BY <1>5 DEF ImgHolders, ContHolders, ReqHolders, DelHolders, Init
      <3>2. Cardinality({}) = 0
        BY FS_EmptySet
      <3> QED BY <3>1, <3>2 DEF Exact, Init
    <2> QED BY <1>4, <2>1, ExactIs
  <1>10. DelOK
    BY <1>5 DEF DelOK
  <1>11. ParentsOK
    BY DEF ParentsOK, Init
  <1> QED BY <1>3, <1>4, <1>6, <1>7, <1>8, <1>9, <1>10, <1>11 DEF ImageInv

\* The invariant is about the variables alone.
LEMMA StutterImageInv ==
  ASSUME ImageInv, UNCHANGED vars
  PROVE  ImageInv'
  <1>1. UNCHANGED <<images, children, content, parent, refs, byID, saved, layers, held, cont, op, strayed>>
    BY DEF vars
  <1>2. TypeOK' /\ OpsOK' /\ RefsIndexed' /\ LayersOK' /\ DelOK'
    BY <1>1 DEF ImageInv, TypeOK, OpsOK, OpOK, RefsIndexed, LayersOK, DelOK
  <1>3. ContOK' /\ ParentsOK'
    BY <1>1 DEF ImageInv, ContOK, ParentsOK, FsDeleting, At
  <1>4. LayerRefsExact'
    BY <1>1 DEF ImageInv, LayerRefsExact, At, NoCont
  <1> QED BY <1>2, <1>3, <1>4 DEF ImageInv

\* Every step keeps the invariant.
LEMMA NextImageInv == ImageInv /\ [Next]_vars => ImageInv'
  <1> SUFFICES ASSUME ImageInv, [Next]_vars PROVE ImageInv'
    OBVIOUS
  <1>1. ASSUME NEW p \in Procs, MakeStep(p)
        PROVE  ImageInv'
    BY <1>1, RequestKeeps, HoldLayerKeeps, ReleaseLayerKeeps, SetContentKeeps, CreateKeeps, SetParentKeeps,
       AddTagKeeps, AddDigestKeeps DEF MakeStep
  <1>2. ASSUME NEW p \in Procs, DeleteStep(p)
        PROVE  ImageInv'
    BY <1>2, DeletionKeeps, RemoveRefKeeps, DeleteKeeps, FsDeleteKeeps, DeleteReleaseKeeps DEF DeleteStep
  <1>3. ASSUME NEW p \in Procs, ContainerStep(p)
        PROVE  ImageInv'
    BY <1>3, CreateContainerKeeps, SetRWLayerKeeps, RegisterKeeps DEF ContainerStep
  <1>4. ASSUME NEW c \in Containers, StartStop(c) \/ RemoveContainer(c)
        PROVE  ImageInv'
    BY <1>4, StartStopKeeps, RemoveContainerKeeps
  <1>5. CASE Restart
    BY <1>5, RestartKeeps
  <1>6. CASE UNCHANGED vars
    BY <1>6, StutterImageInv
  <1> QED BY <1>1, <1>2, <1>3, <1>4, <1>5, <1>6 DEF Next

\* The inductive invariant of the image store, with its types.
THEOREM ImageStoreInvariant == Spec => []ImageInv
  BY InitImageInv, NextImageInv, PTL DEF Spec

\* The index by ID of reference/store.go is the inverse of its references, whatever tags
\* are overwritten or removed, whether or not they can be saved, and after every restart.
THEOREM ReferencesIndexed == Spec => []RefsIndexed
  <1>1. ImageInv => RefsIndexed
    BY DEF ImageInv
  <1> QED BY <1>1, ImageStoreInvariant, PTL

\* The layer store's count of every layer is the number of its holders in image.store, among
\* the containers and among the requests: Create, Delete and what fails in between neither
\* leak a reference nor release one twice.
THEOREM LayerReferencesExact == Spec => []LayerRefsExact
  <1>1. ImageInv => LayerRefsExact
    BY DEF ImageInv
  <1> QED BY <1>1, ImageStoreInvariant, PTL

\* No image in the store and no container loses a layer of its stack, however deletions,
\* pulls, commits and restarts interleave.
THEOREM LayersInUseStay == Spec => []InUseLayersPresent
  <1>1. ImageInv => InUseLayersPresent
    <2> SUFFICES ASSUME ImageInv PROVE InUseLayersPresent
      OBVIOUS
    <2>1. ASSUME NEW i \in images
          PROVE  Stack[LayerOf[i]] \subseteq layers
      <3>1. held[LayerOf[i]] > 0 /\ LayerOf[i] \in Layers
        BY HolderCounts, LayerAssumption DEF ImageInv, TypeOK
      <3> QED BY <3>1 DEF ImageInv, LayersOK
    <2>2. ASSUME NEW c \in Containers, cont[c] # NoCont
          PROVE  Stack[LayerOf[cont[c].img]] \subseteq layers
      <3>1. cont[c].img \in Images
        BY <2>2 DEF ImageInv, TypeOK, ContOK, NoCont
      <3>2. held[LayerOf[cont[c].img]] > 0 /\ LayerOf[cont[c].img] \in Layers
        BY <2>2, <3>1, HolderCounts, LayerAssumption
      <3> QED BY <3>2 DEF ImageInv, LayersOK
    <2> QED BY <2>1, <2>2 DEF InUseLayersPresent
  <1> QED BY <1>1, ImageStoreInvariant, PTL

\* SetParent, Delete and restore keep every image that names its parent on disk among the
\* children of that parent, except one whose parent a restart did not find.
THEOREM ChildrenSeen == Spec => []DependentChildSeen
  <1>1. ImageInv => DependentChildSeen
    <2> SUFFICES ASSUME ImageInv, NEW i \in (images \cap content) \ strayed, NEW q \in images, parent[i] = q
                 PROVE  i \in children[q]
      BY DEF DependentChildSeen
    <2>1. i \in Images /\ q \in Images /\ q # NoImage
      BY BaseAssumption DEF ImageInv, TypeOK
    <2>2. ~FsDeleting(i)
      <3>1. ASSUME NEW p \in Procs, At(p, "fsdelete"), op[p].i = i
            PROVE  FALSE
        <4>1. op[p].todo \in Deleting
          BY <3>1, Apart DEF At, ImageInv, OpsOK, Ops
        <4> QED BY <3>1, <4>1 DEF DelOK, ImageInv
      <3> QED BY <3>1 DEF FsDeleting
    <2> QED BY <2>1, <2>2 DEF ParentsOK, ImageInv
  <1> QED BY <1>1, ImageStoreInvariant, PTL
-------------------------------------------------------------------------------
(* The daemon starts again                                                     *)

\* Without builds that use a cached layer and without errors of fs.Delete, a configuration
\* comes to the disk under a hold of its layer and leaves it before the layer is released.
LEMMA NextContentKept ==
  ASSUME "cache" \notin Requests, "fsdelete" \notin Faults
  PROVE  ImageInv /\ ContentKept /\ [Next]_vars => ContentKept'
  <1> SUFFICES ASSUME ImageInv, ContentKept, [Next]_vars PROVE ContentKept'
    OBVIOUS
  <1>1. OpsOK /\ TypeOK
    BY DEF ImageInv
  \* A step of p that is at none of the places the invariant speaks of.
  <1>2. ASSUME NEW p \in Procs, NEW n, op' = [op EXCEPT ![p] = n], ~At(p, "fsdelete"), ~At(p, "create"),
               images \subseteq images', content' \subseteq content
        PROVE  ContentKept'
    <2>1. \A q \in Procs : q # p => op'[q] = op[q]
      BY <1>1, <1>2 DEF OpsOK
    <2>2. \A i \in content : FsDeleting(i) => FsDeleting(i)'
      BY <1>2, <2>1 DEF FsDeleting, At
    <2>3. \A i \in content : (\E q \in Procs : op[q].holds /\ At(q, "create") /\ op[q].i = i) =>
                               (\E q \in Procs : op'[q].holds /\ At(q, "create")' /\ op'[q].i = i)
      BY <1>2, <2>1 DEF At
    <2> QED BY <1>2, <2>2, <2>3 DEF ContentKept
  <1>3. ASSUME NEW p \in Procs,
               \/ Request(p) \/ HoldLayer(p) \/ ReleaseLayer(p) \/ SetParent(p) \/ AddTag(p) \/ AddDigest(p)
        PROVE  ContentKept'
    <2>1. UNCHANGED <<images, content>>
      BY <1>3 DEF Request, HoldLayer, ReleaseLayer, SetParent, AddTag, AddDigest, imagedb
    <2>2. ~At(p, "fsdelete") /\ ~At(p, "create")
      BY <1>3, IdleOK DEF Request, HoldLayer, ReleaseLayer, SetParent, AddTag, AddDigest, At
    <2>3. \E n : op' = [op EXCEPT ![p] = n]
      BY <1>3 DEF Request, HoldLayer, ReleaseLayer, SetParent, AddTag, AddDigest, Then, Abort, Continue, Go, Save
    <2> QED BY <1>2, <2>1, <2>2, <2>3
  <1>4. ASSUME NEW p \in Procs,
               \/ ImageDelete(p) \/ RemoveRef(p) \/ RemoveRest(p) \/ CheckConflict(p) \/ AllReferences(p)
               \/ DeleteRelease(p) \/ ImagesPrune(p) \/ PruneRef(p)
        PROVE  ContentKept'
    <2>1. UNCHANGED <<images, content>>
      BY <1>4 DEF ImageDelete, RemoveRef, RemoveRest, CheckConflict, AllReferences, DeleteRelease,
                  ImagesPrune, PruneRef, imagedb
    <2>2. ~At(p, "fsdelete") /\ ~At(p, "create")
      BY <1>4, IdleOK DEF ImageDelete, RemoveRef, RemoveRest, CheckConflict, AllReferences, DeleteRelease,
                  ImagesPrune, PruneRef, At
    <2>3. \E n : op' = [op EXCEPT ![p] = n]
      BY <1>4 DEF ImageDelete, RemoveRef, RemoveRest, CheckConflict, AllReferences, DeleteRelease,
                  ImagesPrune, PruneRef, Abort, Continue, Go
    <2> QED BY <1>2, <2>1, <2>2, <2>3
  <1>5. ASSUME NEW p \in Procs, ContainerStep(p)
        PROVE  ContentKept'
    <2>1. UNCHANGED <<images, content>>
      BY <1>5 DEF ContainerStep, CreateContainer, SetRWLayer, Register, imagedb
    <2>2. ~At(p, "fsdelete") /\ ~At(p, "create")
      BY <1>5, IdleOK DEF ContainerStep, CreateContainer, SetRWLayer, Register, At
    <2>3. \E n : op' = [op EXCEPT ![p] = n]
      BY <1>5 DEF ContainerStep, CreateContainer, SetRWLayer, Register, Then, Abort, Continue, Go
    <2> QED BY <1>2, <2>1, <2>2, <2>3
  \* fs.Set: the request holds the layer, and creates next.
  <1>6. ASSUME NEW p \in Procs, SetContent(p)
        PROVE  ContentKept'
    <2>1. At(p, "set") /\ Then(p) /\ content' = content \cup {op[p].i} /\ UNCHANGED images
      BY <1>6 DEF SetContent
    <2>2. op[p].todo \in Todos /\ op[p].todo # <<>> /\ Head(op[p].todo) = "set" /\ OpOK(op[p])
      BY <1>1, <2>1 DEF At, OpsOK, Ops
    <2>3. op[p].todo \in Holding
      <3>1. op[p].todo \notin Plain
        BY <2>2, PlainStep
      <3>2. op[p].todo \notin Cached
        BY <2>2 DEF OpOK
      <3> QED BY <2>2, <3>1, <3>2, Apart DEF Todos
    <2>4. PICK n : Quiet(p, n) /\ n.todo = Tail(op[p].todo) /\ (n.todo # <<>> => n.i = op[p].i)
      BY <1>1, <2>1, QuietThen
    <2>5. op' = [op EXCEPT ![p] = n] /\ OpOK(n)
      BY <2>4 DEF Quiet
    <2>6. op'[p] = n /\ \A q \in Procs : q # p => op'[q] = op[q]
      BY <1>1, <2>5, OpsKept
    <2>7. n.todo \in Holding /\ n.todo # <<>> /\ Head(n.todo) = "create"
      BY <2>2, <2>3, <2>4, HoldingStep
    <2>8. op'[p].holds /\ At(p, "create")' /\ op'[p].i = op[p].i
      BY <2>4, <2>5, <2>6, <2>7 DEF At, OpOK
    <2>9. \A i \in content : FsDeleting(i) => FsDeleting(i)'
      BY <2>2, <2>6 DEF FsDeleting, At
    <2>10. \A i \in content : (\E q \in Procs : op[q].holds /\ At(q, "create") /\ op[q].i = i) =>
                                (\E q \in Procs : op'[q].holds /\ At(q, "create")' /\ op'[q].i = i)
      BY <2>2, <2>6 DEF At
    <2> QED BY <2>1, <2>8, <2>9, <2>10 DEF ContentKept
  \* Create: the layer is held, so that the image is in the store afterwards.
  <1>7. ASSUME NEW p \in Procs, Create(p)
        PROVE  ContentKept'
    <2>1. At(p, "create") /\ content' = content
      BY <1>7 DEF Create
    <2>2. op[p].todo \in Todos /\ op[p].todo # <<>> /\ Head(op[p].todo) = "create" /\ OpOK(op[p]) /\ op[p].i \in Images
      BY <1>1, <2>1 DEF At, OpsOK, Ops, OpOK
    <2>3. op[p].todo \in Holding
      <3>1. op[p].todo \notin Plain
        BY <2>2, PlainStep
      <3>2. op[p].todo \notin Cached
        BY <2>2 DEF OpOK
      <3> QED BY <2>2, <3>1, <3>2, Apart DEF Todos
    <2>4. LayerOf[op[p].i] \in layers
      <3>1. held[LayerOf[op[p].i]] > 0 /\ LayerOf[op[p].i] \in Layers
        BY <2>2, <2>3, HolderCounts, LayerAssumption DEF OpOK
      <3> QED BY <3>1, LayerAssumption DEF LayersOK, ImageInv
    <2>5. op[p].i \in images' /\ images \subseteq images'
      BY <1>7, <2>4 DEF Create
    <2>6. \E n : op' = [op EXCEPT ![p] = n]
      BY <1>7 DEF Create, Then, Abort, Continue, Go
    <2>7. \A q \in Procs : q # p => op'[q] = op[q]
      BY <1>1, <2>6 DEF OpsOK
    <2>8. \A i \in content : FsDeleting(i) => FsDeleting(i)'
      BY <2>2, <2>7 DEF FsDeleting, At
    <2>9. \A i \in content : i # op[p].i /\ (\E q \in Procs : op[q].holds /\ At(q, "create") /\ op[q].i = i) =>
                               (\E q \in Procs : op'[q].holds /\ At(q, "create")' /\ op'[q].i = i)
      BY <2>7 DEF At
    <2> QED BY <2>1, <2>5, <2>8, <2>9 DEF ContentKept
  \* Delete: fs.Delete of the image comes next.
  <1>8. ASSUME NEW p \in Procs, Delete(p)
        PROVE  ContentKept'
    <2>1. At(p, "delete") /\ content' = content
      BY <1>8 DEF Delete
    <2>2. ~At(p, "fsdelete") /\ ~At(p, "create")
      BY <2>1 DEF At
    <2>3. CASE op[p].i \notin images
      <3>1. images' = images /\ \E n : op' = [op EXCEPT ![p] = n]
        BY <1>8, <2>3 DEF Delete, Abort, Continue, Go
      <3> QED BY <1>2, <2>1, <2>2, <3>1
    <2>4. CASE op[p].i \in images
      <3> DEFINE n == [op[p] EXCEPT !.todo = <<"fsdelete", "lrelease">>]
      <3>1. images' = images \ {op[p].i} /\ Continue(p, n)
        BY <1>8, <2>4 DEF Delete
      <3>2. n.todo = <<"fsdelete", "lrelease">> /\ n.i = op[p].i
        BY <1>1 DEF OpsOK, Ops
      <3> HIDE DEF n
      <3>3. n.todo # <<>> /\ Head(n.todo) = "fsdelete"
        BY <3>2
      <3>4. op' = [op EXCEPT ![p] = n]
        BY <3>1, <3>3 DEF Continue, Go
      <3>5. op'[p] = n /\ \A q \in Procs : q # p => op'[q] = op[q]
        BY <1>1, <3>4 DEF OpsOK
      <3>6. \A i \in content : i = op[p].i => FsDeleting(i)'
        BY <3>2, <3>3, <3>5 DEF FsDeleting, At
      <3>7. \A i \in content : FsDeleting(i) => FsDeleting(i)'
        BY <2>2, <3>5 DEF FsDeleting, At
      <3>8. \A i \in content : (\E q \in Procs : op[q].holds /\ At(q, "create") /\ op[q].i = i) =>
                                 (\E q \in Procs : op'[q].holds /\ At(q, "create")' /\ op'[q].i = i)
        BY <2>2, <3>5 DEF At
      <3> QED BY <2>1, <3>1, <3>6, <3>7, <3>8 DEF ContentKept
    <2> QED BY <2>3, <2>4
  \* fs.Delete: the configuration is gone.
  <1>9. ASSUME NEW p \in Procs, FsDelete(p)
        PROVE  ContentKept'
    <2>1. At(p, "fsdelete") /\ content' = content \ {op[p].i} /\ images' = images
      BY <1>9 DEF FsDelete
    <2>2. \E n : op' = [op EXCEPT ![p] = n]
      BY <1>9 DEF FsDelete, Then, Continue, Go
    <2>3. \A q \in Procs : q # p => op'[q] = op[q]
      BY <1>1, <2>2 DEF OpsOK
    <2>4. \A i \in content : i # op[p].i /\ FsDeleting(i) => FsDeleting(i)'
      BY <2>3 DEF FsDeleting, At
    <2>5. \A i \in content : (\E q \in Procs : op[q].holds /\ At(q, "create") /\ op[q].i = i) =>
                               (\E q \in Procs : op'[q].holds /\ At(q, "create")' /\ op'[q].i = i)
      BY <2>1, <2>3 DEF At
    <2> QED BY <2>1, <2>4, <2>5 DEF ContentKept
  <1>10. ASSUME NEW c \in Containers, StartStop(c) \/ RemoveContainer(c)
         PROVE  ContentKept'
    <2>1. UNCHANGED <<images, content, op>>
      BY <1>10 DEF StartStop, RemoveContainer, imagedb
    <2> QED BY <2>1 DEF ContentKept, FsDeleting, At
  <1>11. CASE Restart
    BY <1>11 DEF Restart, ContentKept
  <1>12. CASE UNCHANGED vars
    BY <1>12 DEF vars, ContentKept, FsDeleting, At
  <1> QED BY <1>3, <1>4, <1>5, <1>6, <1>7, <1>8, <1>9, <1>10, <1>11, <1>12 DEF Next, MakeStep, DeleteStep

\* Whenever the daemon dies, restore finds the layer of every configuration on disk and the
\* daemon starts: no crash inside a pull, a commit, a load, an import, a deletion or a prune
\* leaves a configuration behind whose layer is gone.  The two exceptions are real: a build
\* with --cache-from does not hold the layer, and fs.Delete's error is not looked at.
THEOREM DaemonRestarts ==
  ASSUME "cache" \notin Requests, "fsdelete" \notin Faults
  PROVE  Spec => []RestoreSucceeds
  <1>1. Init => ContentKept
    BY DEF Init, ContentKept
  <1>2. ImageInv /\ ContentKept /\ [Next]_vars => ContentKept'
    BY NextContentKept
  <1>3. ImageInv /\ ContentKept => RestoreSucceeds
    <2> SUFFICES ASSUME ImageInv, ContentKept, NEW i \in content
                 PROVE  LayerOf[i] \in layers
      BY DEF RestoreSucceeds, Restorable
    <2>1. LayerOf[i] \in Layers /\ LayerOf[i] \in Stack[LayerOf[i]]
      BY LayerAssumption DEF ImageInv, TypeOK
    <2>2. held[LayerOf[i]] > 0
      <3>1. CASE i \in images
        BY <3>1, HolderCounts
      <3>2. CASE FsDeleting(i)
        <4>1. PICK p \in Procs : At(p, "fsdelete") /\ op[p].i = i
          BY <3>2 DEF FsDeleting
        <4>2. op[p].todo \in Deleting
          BY <4>1, Apart DEF At, ImageInv, OpsOK, Ops
        <4> QED BY <4>1, <4>2, HolderCounts
      <3>3. CASE \E p \in Procs : op[p].holds /\ At(p, "create") /\ op[p].i = i
        BY <3>3, HolderCounts
      <3> QED BY <3>1, <3>2, <3>3 DEF ContentKept
    <2> QED BY <2>1, <2>2 DEF LayersOK, ImageInv
  <1> QED BY <1>1, <1>2, <1>3, ImageStoreInvariant, PTL DEF Spec
===============================================================================
