------------------------------ MODULE ImageStore ------------------------------
(***************************************************************************)
(* image/store.go on its file system backend, reference/store.go, and the  *)
(* requests of the daemon that use them: pull, commit, load, import, build *)
(* with a cache, tag, rmi, image prune, and creating, running and removing *)
(* containers, with a restart of the daemon at any step.                   *)
(*                                                                         *)
(* A request that makes an image is a sequence of steps (Program).  A      *)
(* section under image.store's lock, or under the reference store's, is    *)
(* one step, except that Delete is three: the daemon may die between them, *)
(* and fs.Set of another request takes no lock of the store.  The          *)
(* reads of one conflict check are one step; what is decided on them may   *)
(* be stale when it is done.                                               *)
(*                                                                         *)
(* The layer store (LayerStore) is its promise: a layer is there while it, *)
(* or one on top of it, is held.                                           *)
(***************************************************************************)
EXTENDS Naturals, Sequences, FiniteSets

CONSTANTS Procs,      \* goroutines that serve requests
          Images,     \* image IDs
          NoImage,    \* no image
          Base,       \* Base[i]: the image a commit that makes i is based on
          Layers,     \* layers, by chain ID
          LayerOf,    \* LayerOf[i]: ChainID of the RootFS of i
          Stack,      \* Stack[l]: the layer l and those below it
          Refs,       \* references
          Digests,    \* the references that are digests; the others are tags
          Repo,       \* Repo[r]: repository of r
          Containers,
          Named,      \* the sets of at most one reference that clients name
          Requests,   \* what clients ask for
          MaxUnsaved, \* bound on references that could not be saved
          Faults      \* "save", "fsdelete", "crash"

ASSUME BaseAssumption == Base \in [Images -> Images \cup {NoImage}] /\ NoImage \notin Images
ASSUME LayerAssumption ==
  /\ LayerOf \in [Images -> Layers]
  /\ Stack \in [Layers -> SUBSET Layers]
  /\ \A l \in Layers : l \in Stack[l] /\ \A m \in Stack[l] : Stack[m] \subseteq Stack[l]
ASSUME RefsAssumption ==
  /\ Digests \subseteq Refs /\ DOMAIN Repo = Refs
  /\ Named \subseteq SUBSET Refs /\ \A r \in Named : Cardinality(r) <= 1
ASSUME FiniteAssumption == IsFiniteSet(Procs) /\ IsFiniteSet(Images) /\ IsFiniteSet(Containers)

VARIABLES images,     \* store.images: its keys
          children,   \* imageMeta.children
          content,    \* imagedb/content on disk
          parent,     \* imagedb/metadata/<id>/parent on disk
          refs,       \* reference store: Repositories
          byID,       \* reference store: referencesByIDCache
          saved,      \* repositories.json
          layers,     \* layer store: the layers there are
          held,       \* layer store: references handed out for a layer
          cont,       \* daemon.containers, with their layers
          op,         \* op[p]: the request of p and where it is
          strayed     \* history: images whose parent the last restart did not find

vars == <<images, children, content, parent, refs, byID, saved, layers, held, cont, op, strayed>>
imagedb == <<images, children, content, parent, strayed>>
refdb == <<refs, byID, saved>>
layerdb == <<layers, held>>

NoCont == [img |-> NoImage, st |-> "none"]
Idle == [do |-> "idle", todo |-> <<>>, i |-> NoImage, r |-> {}, c |-> {}, holds |-> FALSE,
         force |-> FALSE, deep |-> FALSE, up |-> NoImage, rs |-> {}, names |-> {}]

TypeOK ==
  /\ images \in SUBSET Images
  /\ children \in [Images -> SUBSET Images]
  /\ content \in SUBSET Images
  /\ parent \in [Images -> Images \cup {NoImage}]
  /\ refs \in [Refs -> Images \cup {NoImage}]
  /\ byID \in [Images -> SUBSET Refs]
  /\ saved \in [Refs -> Images \cup {NoImage}]
  /\ layers \in SUBSET Layers
  /\ held \in [Layers -> Nat]
  /\ cont \in [Containers -> [img : Images \cup {NoImage}, st : {"none", "layer", "stopped", "running"}]]
  /\ DOMAIN op = Procs
  /\ strayed \in SUBSET Images

Init ==
  /\ images = {} /\ content = {}
  /\ children = [i \in Images |-> {}]
  /\ parent = [i \in Images |-> NoImage]
  /\ refs = [r \in Refs |-> NoImage] /\ saved = refs
  /\ byID = [i \in Images |-> {}]
  /\ layers = {}
  /\ held = [l \in Layers |-> 0]
  /\ cont = [c \in Containers |-> NoCont]
  /\ op = [p \in Procs |-> Idle]
  /\ strayed = {}
-------------------------------------------------------------------------------
(* The layer store                                                              *)

\* layers after a holder of l is gone: those of the stack that nothing else needs go.
WithoutHolder(l, h) ==
  layers \ {k \in Stack[l] : \A m \in layers : k \in Stack[m] => m \in Stack[l] /\ h[m] = 0}

\* layerStore.Release
Release(l) ==
  /\ held' = [held EXCEPT ![l] = @ - 1]
  /\ layers' = WithoutHolder(l, held')

\* layerStore.Register, or a download: the layer is there, and held.
Hold(l) ==
  /\ held' = [held EXCEPT ![l] = @ + 1]
  /\ layers' = layers \cup Stack[l]
-------------------------------------------------------------------------------
(* Steps of a request                                                           *)

Go(p, o) == op' = [op EXCEPT ![p] = o]
\* The delete that holds the lock of image.store, if any.
Locked == \E p \in Procs : op[p].todo # <<>> /\ Head(op[p].todo) \in {"fsdelete", "lrelease"}

At(p, step) == op[p].todo # <<>> /\ Head(op[p].todo) = step
Continue(p, o) == Go(p, IF o.todo = <<>> /\ o.names = {} THEN Idle ELSE o)
Then(p) == Continue(p, [op[p] EXCEPT !.todo = Tail(@)])
\* An error: the deferred release of the layer is made, and a prune goes on to the next reference.
Abort(p) == Continue(p, [op[p] EXCEPT !.todo = IF op[p].holds THEN <<"release">> ELSE <<>>, !.rs = {}])

\* pull, commit, load, import, squash and a build that finds its step in the cache.
\* A pull releases its layers before it adds the tag, the others when they return.
Program ==
  [pull   |-> <<"hold", "set", "create", "release", "digest", "tag">>,
   commit |-> <<"hold", "set", "create", "setparent", "tag", "release">>,
   load   |-> <<"hold", "set", "create", "tag", "setparent", "release">>,
   import |-> <<"hold", "set", "create", "tag", "release">>,
   cache  |-> <<"set", "create", "setparent">>,
   tag    |-> <<"tag">>]

\* What a client asks for: the image, and the reference it shall get, if any (a digest for
\* a pull by digest).  A commit reads the configuration of the container's image; a build,
\* those of the image the step is based on and of the one it finds the layer in
\* (--cache-from), which it does not hold; a tag resolves its image, by ID or by reference.
Request(p) ==
  /\ op[p] = Idle
  /\ \E do \in Requests \cap DOMAIN Program, i \in Images, r \in Named :
       /\ do # "tag" => (Base[i] = NoImage <=> do \in {"pull", "import"})
       /\ r = {} => do \in {"commit", "load", "import", "cache"}
       /\ do = "pull" \/ r \cap Digests = {}
       /\ do \in {"commit", "cache"} => Base[i] \in content
       /\ do = "commit" => \E c \in Containers : cont[c].img = Base[i] /\ cont[c].st \in {"stopped", "running"}
       /\ do = "cache" => \E j \in content \ {i} : LayerOf[i] \in Stack[LayerOf[j]]
       /\ do = "tag" => i \in content \/ \E q \in Refs : refs[q] = i
       /\ Go(p, [Idle EXCEPT !.do = do, !.todo = Program[do], !.i = i, !.r = r])
  /\ UNCHANGED <<imagedb, refdb, layerdb, cont>>

\* The layers of the image are made or got, and kept by the request.
HoldLayer(p) ==
  /\ At(p, "hold")
  /\ Hold(LayerOf[op[p].i])
  /\ Go(p, [op[p] EXCEPT !.todo = Tail(@), !.holds = TRUE])
  /\ UNCHANGED <<imagedb, refdb, cont>>

ReleaseLayer(p) ==
  /\ At(p, "release")
  /\ Release(LayerOf[op[p].i])
  /\ Continue(p, [op[p] EXCEPT !.todo = Tail(@), !.holds = FALSE])
  /\ UNCHANGED <<imagedb, refdb, cont>>

\* Create, first part: fs.Set, before the lock is taken.
SetContent(p) ==
  /\ At(p, "set")
  /\ content' = content \cup {op[p].i}
  /\ Then(p)
  /\ UNCHANGED <<images, children, parent, strayed, refdb, layerdb, cont>>

\* Variant: the layer is got before the image is looked for.
CreateGetsFirst(p) ==
  LET i == op[p].i
  IN /\ At(p, "create") /\ ~Locked
     /\ IF LayerOf[i] \in layers
          THEN /\ images' = images \cup {i}
               /\ held' = [held EXCEPT ![LayerOf[i]] = @ + 1]
               /\ Then(p)
          ELSE Abort(p) /\ UNCHANGED <<images, held>>
     /\ UNCHANGED <<children, content, parent, strayed, refdb, layers, cont>>

\* Variant: the image does not hold its layer.
CreateBorrows(p) ==
  LET i == op[p].i
  IN /\ At(p, "create") /\ ~Locked
     /\ IF LayerOf[i] \in layers
          THEN images' = images \cup {i} /\ Then(p)
          ELSE Abort(p) /\ UNCHANGED images
     /\ UNCHANGED <<children, content, parent, strayed, refdb, layerdb, cont>>

\* Create under the lock: an image that is new gets its layer, or the call fails.
Create(p) ==
  LET i == op[p].i
  IN /\ At(p, "create") /\ ~Locked
     /\ IF i \notin images /\ LayerOf[i] \in layers
          THEN /\ images' = images \cup {i}
               /\ held' = [held EXCEPT ![LayerOf[i]] = @ + 1]
          ELSE UNCHANGED <<images, held>>
     /\ IF i \in images \/ LayerOf[i] \in layers THEN Then(p) ELSE Abort(p)
     /\ UNCHANGED <<children, content, parent, strayed, refdb, layers, cont>>

\* GetParent: the metadata of an image without its configuration is not read.
GetParent(i) == IF i \in content THEN parent[i] ELSE NoImage

\* SetParent: the child is recorded at its new parent before its metadata is written, which
\* fails when the child is gone.  Load looks first whether both are there.
SetParent(p) ==
  LET i == op[p].i
      base == Base[op[p].i]
      ok == base \in images /\ (op[p].do = "load" => {i, base} \subseteq content)
  IN /\ At(p, "setparent") /\ ~Locked
     /\ \/ ~ok /\ Abort(p) /\ UNCHANGED <<children, parent, strayed>>
        \/ /\ ok
           /\ children' = [q \in Images |-> IF q = base THEN children[q] \cup {i}
                                            ELSE IF q = GetParent(i) THEN children[q] \ {i} ELSE children[q]]
           /\ IF i \in content
                THEN parent' = [parent EXCEPT ![i] = base] /\ strayed' = strayed \ {i} /\ Then(p)
                ELSE Abort(p) /\ UNCHANGED <<parent, strayed>>
     /\ UNCHANGED <<images, content, refdb, layerdb, cont>>
-------------------------------------------------------------------------------
(* The reference store                                                          *)

Tags(rs) == rs \ Digests

\* Bound: at most MaxUnsaved references differ from what is on disk.
MayFail == "save" \in Faults /\ Cardinality({r \in Refs : refs'[r] # saved[r]}) <= MaxUnsaved

\* save: memory is changed whether or not the file can be written.
Save(p) ==
  \/ saved' = refs' /\ Then(p)
  \/ MayFail /\ Abort(p) /\ UNCHANGED saved

\* Variant: the index of the image that had the reference keeps it.
PutKeepsOld(r, i) ==
  /\ refs' = [refs EXCEPT ![r] = i]
  /\ byID' = [byID EXCEPT ![i] = @ \cup {r}]

\* addReference: the index follows.
Put(r, i) ==
  /\ refs' = [refs EXCEPT ![r] = i]
  /\ byID' = [j \in Images |-> IF j = i THEN byID[j] \cup {r} ELSE byID[j] \ {r}]

\* AddTag with force, as every request of the daemon calls it; nothing asks whether the
\* image is still there.
AddTag(p) ==
  /\ At(p, "tag")
  /\ \/ \E r \in Tags(op[p].r) : Put(r, op[p].i) /\ Save(p)
     \/ /\ Tags(op[p].r) = {} \/ (op[p].do = "pull" /\ \A r \in op[p].r : refs[r] = op[p].i)
        /\ Then(p)
        /\ UNCHANGED refdb
  /\ UNCHANGED <<imagedb, layerdb, cont>>

\* addDigestReference of a pull: a digest that is there is not changed.
AddDigest(p) ==
  /\ At(p, "digest")
  /\ \/ \E r \in op[p].r, d \in Digests :
          /\ Repo[d] = Repo[r]
          /\ refs[d] = NoImage
          /\ Put(d, op[p].i) /\ Save(p)
     \/ /\ Then(p)
        /\ \A d \in Digests : Repo[d] \in {Repo[r] : r \in op[p].r} => refs[d] # NoImage
        /\ UNCHANGED refdb
  /\ UNCHANGED <<imagedb, layerdb, cont>>

\* Delete of the reference store.
Take(r) ==
  /\ refs' = [refs EXCEPT ![r] = NoImage]
  /\ byID' = [byID EXCEPT ![refs[r]] = @ \ {r}]

\* removeImageRef: a reference that somebody else has removed is an error.
RemoveRef(p) ==
  /\ At(p, "untag")
  /\ \E r \in op[p].rs :
       IF refs[r] = NoImage
         THEN Abort(p) /\ UNCHANGED refdb
         ELSE /\ Take(r)
              /\ \/ /\ saved' = refs'
                    /\ Continue(p, [op[p] EXCEPT !.rs = @ \ {r},
                                    !.todo = IF op[p].rs = {r} THEN Tail(@) ELSE @])
                 \/ MayFail /\ Abort(p) /\ UNCHANGED saved
  /\ UNCHANGED <<imagedb, layerdb, cont>>
-------------------------------------------------------------------------------
(* rmi and image prune                                                          *)

\* isSingleReference
IsSingle(rs) ==
  \/ Cardinality(rs) = 1
  \/ /\ rs # {} /\ Cardinality(Tags(rs)) <= 1
     /\ \E n \in {Repo[r] : r \in rs} : \A r \in rs : Repo[r] = n

Using(i, st) == \E c \in Containers : cont[c].img = i /\ cont[c].st \in st

\* checkImageDeleteConflict: children and running containers always, references and
\* stopped containers unless the masks leave them out.
Conflict(i, active, stopped) ==
  \/ children[i] # {}
  \/ Using(i, {"running"})
  \/ active /\ byID[i] # {}
  \/ stopped /\ Using(i, {"stopped"})

Untag(rs) == IF rs = {} THEN <<>> ELSE <<"untag">>

\* ImageDelete of a reference: the only one is not removed from an image in use, unless forced.
DeleteByRef(o, r, force) ==
  IF ~force /\ IsSingle(byID[refs[r]]) /\ Using(refs[r], {"stopped", "running"})
    THEN [o EXCEPT !.todo = <<>>, !.rs = {}]
    ELSE [o EXCEPT !.i = refs[r], !.r = {r}, !.rs = {r}, !.force = force, !.deep = FALSE,
                   !.todo = <<"untag", "rest">>]

\* ImageDelete of an ID: references to one repository, with one tag, go with the image.
DeleteByID(o, i, force) ==
  IF IsSingle(byID[i])
    THEN IF Conflict(i, FALSE, ~force)
           THEN [o EXCEPT !.todo = <<>>, !.rs = {}]
           ELSE [o EXCEPT !.i = i, !.rs = byID[i], !.force = force, !.deep = FALSE,
                          !.todo = <<"untag", "check">>]
    ELSE [o EXCEPT !.i = i, !.rs = {}, !.force = force, !.deep = FALSE, !.todo = <<"check">>]

\* docker rmi
ImageDelete(p) ==
  /\ "rmi" \in Requests
  /\ op[p] = Idle
  /\ LET o == [Idle EXCEPT !.do = "rmi"]
     IN \E force \in BOOLEAN :
          \/ \E r \in Refs : refs[r] # NoImage /\ Continue(p, DeleteByRef(o, r, force))
          \/ \E i \in content : Continue(p, DeleteByID(o, i, force))
  /\ UNCHANGED <<imagedb, refdb, layerdb, cont>>

\* ImageDelete once the reference is gone: the digests of a repository without a tag go
\* too, and when no reference is left, the image.
RemoveRest(p) ==
  LET left == byID[op[p].i]
      name == {Repo[r] : r \in op[p].r}
      digests == IF op[p].r \subseteq Digests \/ \E r \in Tags(left) : Repo[r] \in name
                   THEN {} ELSE {d \in left \cap Digests : Repo[d] \in name}
  IN /\ At(p, "rest")
     /\ Continue(p, [op[p] EXCEPT !.rs = digests, !.r = {},
                       !.todo = Untag(digests) \o IF left \ digests = {} THEN <<"check">> ELSE <<>>])
     /\ UNCHANGED <<imagedb, refdb, layerdb, cont>>

\* imageDeleteHelper: a conflict ends it.
CheckConflict(p) ==
  LET o == op[p]
  IN /\ At(p, "check") /\ ~Locked
     /\ IF Conflict(o.i, ~o.force, ~o.force)
          THEN Abort(p) ELSE Continue(p, [o EXCEPT !.todo = <<"all">>, !.force = FALSE])
     /\ UNCHANGED <<imagedb, refdb, layerdb, cont>>

\* removeAllReferencesToImageID begins; the parent is remembered.
AllReferences(p) ==
  LET o == op[p]
  IN /\ At(p, "all")
     /\ Continue(p, [o EXCEPT !.up = GetParent(o.i), !.rs = byID[o.i],
                              !.todo = Untag(byID[o.i]) \o <<"delete">>])
     /\ UNCHANGED <<imagedb, refdb, layerdb, cont>>

\* Variant: the children keep their parent on disk.
DeleteKeepsParents(p) ==
  LET i == op[p].i
  IN /\ At(p, "delete") /\ ~Locked
     /\ IF i \in images
          THEN /\ images' = images \ {i}
               /\ children' = [q \in Images |->
                                 IF q = i THEN {} ELSE IF q = GetParent(i) THEN children[q] \ {i} ELSE children[q]]
               /\ Continue(p, [op[p] EXCEPT !.todo = <<"fsdelete", "lrelease">>])
          ELSE Abort(p) /\ UNCHANGED <<images, children>>
     /\ UNCHANGED <<content, parent, strayed, refdb, layerdb, cont>>

\* Delete under the lock: the children lose their parent on disk, the image leaves the maps.
Delete(p) ==
  LET i == op[p].i
  IN /\ At(p, "delete") /\ ~Locked
     /\ IF i \in images
          THEN /\ images' = images \ {i}
               /\ parent' = [j \in Images |-> IF j \in children[i] THEN NoImage ELSE parent[j]]
               /\ children' = [q \in Images |->
                                 IF q = i THEN {} ELSE IF q = GetParent(i) THEN children[q] \ {i} ELSE children[q]]
               /\ Continue(p, [op[p] EXCEPT !.todo = <<"fsdelete", "lrelease">>])
          ELSE Abort(p) /\ UNCHANGED <<images, parent, children>>
     /\ UNCHANGED <<content, strayed, refdb, layerdb, cont>>

\* fs.Delete: the metadata, then the configuration.  Its error is not looked at.
FsDelete(p) ==
  LET i == op[p].i
  IN /\ At(p, "fsdelete")
     /\ parent' = [parent EXCEPT ![i] = NoImage]
     /\ \/ content' = content \ {i}
        \/ "fsdelete" \in Faults /\ UNCHANGED content
     /\ Then(p)
     /\ UNCHANGED <<images, children, strayed, refdb, layerdb, cont>>

\* ls.Release at the end of Delete; then the parent is deleted, unless a client said noprune.
DeleteRelease(p) ==
  LET o == op[p]
  IN /\ At(p, "lrelease")
     /\ Release(LayerOf[o.i])
     /\ \/ /\ o.up # NoImage
           /\ Continue(p, [o EXCEPT !.i = o.up, !.up = NoImage, !.force = FALSE, !.deep = TRUE, !.todo = <<"check">>])
        \/ /\ o.up = NoImage \/ (o.do = "rmi" /\ ~o.deep)
           /\ Continue(p, [o EXCEPT !.todo = <<>>, !.up = NoImage])
     /\ UNCHANGED <<imagedb, refdb, cont>>

\* ImagesPrune, for one of the images it goes through (filters may leave out any other, and
\* ImageDelete looks at everything anew): a head, or with -a any image but one that is only
\* a parent, by its references (without -a, when none is a tag) or by its ID.
ImagesPrune(p) ==
  /\ "prune" \in Requests
  /\ op[p] = Idle /\ ~Locked
  /\ \E i \in images \cap content, all \in BOOLEAN :
       /\ children[i] # {} => all /\ byID[i] # {}
       /\ \/ /\ byID[i] # {} /\ (all \/ Tags(byID[i]) = {})
             /\ Continue(p, [Idle EXCEPT !.do = "prune", !.names = byID[i]])
          \/ /\ byID[i] = {}
             /\ Continue(p, DeleteByID([Idle EXCEPT !.do = "prune"], i, FALSE))
  /\ UNCHANGED <<imagedb, refdb, layerdb, cont>>

PruneRef(p) ==
  /\ op[p].do = "prune" /\ op[p].todo = <<>>
  /\ \E r \in op[p].names :
       LET o == [op[p] EXCEPT !.names = @ \ {r}]
       IN Continue(p, IF refs[r] # NoImage THEN DeleteByRef(o, r, FALSE) ELSE o)
  /\ UNCHANGED <<imagedb, refdb, layerdb, cont>>
-------------------------------------------------------------------------------
(* Containers                                                                   *)

\* docker create: GetImage, then setRWLayer reads the image again and makes a layer on its
\* layer, then the container is registered.
CreateContainer(p) ==
  /\ "container" \in Requests
  /\ op[p] = Idle
  /\ \E c \in Containers, i \in content :
       /\ cont[c] = NoCont
       /\ \A q \in Procs : c \notin op[q].c
       /\ Go(p, [Idle EXCEPT !.do = "container", !.i = i, !.c = {c}, !.todo = <<"rwlayer", "register">>])
  /\ UNCHANGED <<imagedb, refdb, layerdb, cont>>

SetRWLayer(p) ==
  LET i == op[p].i
  IN /\ At(p, "rwlayer")
     /\ IF i \in content /\ LayerOf[i] \in layers
          THEN /\ held' = [held EXCEPT ![LayerOf[i]] = @ + 1]
               /\ cont' = [c \in Containers |-> IF c \in op[p].c THEN [img |-> i, st |-> "layer"] ELSE cont[c]]
               /\ Then(p)
          ELSE Abort(p) /\ UNCHANGED <<held, cont>>
     /\ UNCHANGED <<imagedb, refdb, layers>>

Register(p) ==
  /\ At(p, "register")
  /\ cont' = [c \in Containers |-> IF c \in op[p].c THEN [cont[c] EXCEPT !.st = "stopped"] ELSE cont[c]]
  /\ Then(p)
  /\ UNCHANGED <<imagedb, refdb, layerdb>>

\* The container is started, stops, is removed: ContainerLifecycle.
StartStop(c) ==
  /\ cont[c].st \in {"stopped", "running"}
  /\ cont' = [cont EXCEPT ![c].st = IF @ = "stopped" THEN "running" ELSE "stopped"]
  /\ UNCHANGED <<imagedb, refdb, layerdb, op>>

RemoveContainer(c) ==
  /\ cont[c].st = "stopped"
  /\ Release(LayerOf[cont[c].img])
  /\ cont' = [cont EXCEPT ![c] = NoCont]
  /\ UNCHANGED <<imagedb, refdb, op>>
-------------------------------------------------------------------------------
\* What restore makes of the image store: every configuration on disk must find its layer.
Restorable == \A i \in content : LayerOf[i] \in layers

\* The daemon dies and starts again: the layers and the containers' layers are loaded,
\* restore and reload read the stores.
Restart ==
  /\ "crash" \in Faults
  /\ Restorable
  /\ images' = content
  /\ children' = [q \in Images |-> IF q \in content THEN {i \in content : parent[i] = q} ELSE {}]
  /\ refs' = saved
  /\ byID' = [i \in Images |-> {r \in Refs : saved[r] = i}]
  /\ held' = [l \in Layers |-> Cardinality({i \in content : LayerOf[i] = l})
                                + Cardinality({c \in Containers : cont[c] # NoCont /\ LayerOf[cont[c].img] = l})]
  /\ op' = [p \in Procs |-> Idle]
  /\ strayed' = {i \in content : parent[i] \notin content \cup {NoImage}}
  /\ UNCHANGED <<content, parent, saved, layers, cont>>

MakeStep(p) ==
  Request(p) \/ HoldLayer(p) \/ ReleaseLayer(p) \/ SetContent(p) \/ Create(p) \/ SetParent(p)
    \/ AddTag(p) \/ AddDigest(p)
DeleteStep(p) ==
  \/ ImageDelete(p) \/ RemoveRef(p) \/ RemoveRest(p) \/ CheckConflict(p) \/ AllReferences(p)
  \/ Delete(p) \/ FsDelete(p) \/ DeleteRelease(p) \/ ImagesPrune(p) \/ PruneRef(p)
ContainerStep(p) == CreateContainer(p) \/ SetRWLayer(p) \/ Register(p)

Next ==
  \/ \E p \in Procs : MakeStep(p) \/ DeleteStep(p) \/ ContainerStep(p)
  \/ \E c \in Containers : StartStop(c) \/ RemoveContainer(c)
  \/ Restart

Spec == Init /\ [][Next]_vars
-------------------------------------------------------------------------------
(* Properties *)

\* The layer store's count of a layer is the number of its holders: images, containers,
\* requests that hold it until they return, and deletions that have not released it yet.
\* No image that is created twice, deleted while it is created, or pruned with its parent
\* leaks a reference or gives one back that it does not have.
LayerRefsExact ==
  \A l \in Layers :
    held[l] = Cardinality({i \in images : LayerOf[i] = l})
                + Cardinality({c \in Containers : cont[c] # NoCont /\ LayerOf[cont[c].img] = l})
                + Cardinality({p \in Procs : op[p].holds /\ LayerOf[op[p].i] = l})
                + Cardinality({p \in Procs : /\ At(p, "fsdelete") \/ At(p, "lrelease")
                                             /\ LayerOf[op[p].i] = l})

\* An image in the store and a container keep the whole stack of their layers, whatever is
\* deleted next to them.
InUseLayersPresent ==
  /\ \A i \in images : Stack[LayerOf[i]] \subseteq layers
  /\ \A c \in Containers : cont[c] # NoCont => Stack[LayerOf[cont[c].img]] \subseteq layers

\* Whenever the daemon dies, it starts again: every configuration on disk has its layer
\* (restore returns the error of the first that has not, store.go:116).
RestoreSucceeds == Restorable

\* An image that names its parent on disk is among that parent's children, which is what
\* keeps the parent from being deleted, unless a restart did not find the parent: a later
\* pull of it then makes it without the child.
DependentChildSeen ==
  \A i \in (images \cap content) \ strayed, q \in images : parent[i] = q => i \in children[q]

\* The index by ID, from which rmi decides whether an image has references, is the inverse
\* of the references, across overwritten tags, failed saves and restarts.
RefsIndexed ==
  \A i \in Images : byID[i] = {r \in Refs : refs[r] = i}
===============================================================================
