---------------------------- MODULE IndexFacade ----------------------------
(***************************************************************************)
(* The common operations, the capability dispatch and the fault boundary  *)
(* of the C facade, src/faiss_c_impl.cpp, over the index classes whose    *)
(* state they change: Flat, HNSWFlat, IVFFlat (with its quantizer       *)
(* handle), IDMap (with its base handle), Refine (a base and a refine     *)
(* index), Shards (a list of shards) and the binary Flat and IVF.         *)
(*                                                                         *)
(* Each facade function is one action: a dynamic_cast check returns -1   *)
(* on a mismatch, an engine exception becomes -1 through CATCH_AND_HANDLE, *)
(* and a null handle that is dereferenced outside a dynamic_cast is a     *)
(* crash no catch clause stops.  The engine's reaction to each call is    *)
(* the one spec.md (sec. 3, 4.3-4.5) describes: add needs a trained index, *)
(* IDMap refuses plain add, the wrappers cache their children's state.   *)
(*                                                                         *)
(* Vectors are abstracted to counts; an IDMap keeps its id_map, the list  *)
(* of external ids in row order, and an IVF the labels its rows were     *)
(* stored with (a flat index's labels are its row positions).  Lifetime   *)
(* is left to IndexLifecycle:                                              *)
(* here every constructed handle stays live.                              *)
(***************************************************************************)
EXTENDS Integers, Sequences, FiniteSets, Functions, TLC

CONSTANTS
  Slot,              \* addresses an engine object can be allocated at
  Built,             \* the index classes the caller constructs
  NULL,              \* the null handle
  NLIST,             \* nlist of every IVF the caller builds
  MaxN,              \* bound on any object's ntotal
  Id,                \* external ids the caller passes to add_with_ids
  NprobeVal,         \* values the caller passes to set_nprobe
  EfVal,             \* values the caller passes to the HNSW ef setters
  FreshIds,          \* caller rule: add_with_ids never repeats a present id
  SharedChildren,    \* caller may mutate, or wrap again, a wrapped handle
  RefineOver,        \* classes the caller uses as the children of a Refine
  KFactorVal,        \* values the caller passes to set_k_factor
  WordBits           \* width of int64_t and size_t (64 in the build)

ASSUME NULL \notin Slot
ASSUME NLIST \in Nat \ {0} /\ MaxN \in Nat
ASSUME FreshIds \in BOOLEAN /\ SharedChildren \in BOOLEAN
ASSUME WordBits \in Nat \ {0} /\ NprobeVal \subseteq Int

\* Defaults of the engine classes the constructors build.
DefaultNprobe == 1
DefaultEfSearch == 16
DefaultEfConstruction == 40

\* The int64_t -> size_t conversion of ivf->nprobe = nprobe: modulo 2^WordBits.
ToSizeT(v) == v % 2^WordBits

\* The size_t -> int64_t conversion of *nprobe = ivf->nprobe: two's complement.
ToInt64(n) == IF n >= 2^(WordBits - 1) THEN n - 2^WordBits ELSE n

\* The labels an index can store with a row: the ids the caller passes, and
\* the ntotal + i labels an add generates.
LabelVal == Id \cup 0..(MaxN * Cardinality(Slot) - 1)

\* An IVF's stored labels as a count per label (its lists as a multiset);
\* NoLabels for an empty IVF and for every class that keeps no labels.
NoLabels == [l \in LabelVal |-> 0]

\* FaissIndexBinary handles: a C type of their own, so a binary handle is
\* never passed to a faiss_Index_* function nor the reverse.
BinaryKind == {"IndexBinaryFlat", "IndexBinaryIVF"}

\* The inverted-file classes: a quantizer child with nlist centroids.
IVFKind == {"IndexIVFFlat", "IndexBinaryIVF"}

\* IndexFlatL2 and IndexFlatIP: the only classes built with a metric other
\* than L2 here (IVF and HNSW are built with metric_type 1).
FlatKind == {"IndexFlatL2", "IndexFlatIP"}

Kind == FlatKind \cup BinaryKind \cup
        {"IndexHNSWFlat", "IndexIVFFlat", "IndexIDMap", "IndexRefine", "IndexShards"}

ASSUME Built \subseteq Kind /\ RefineOver \subseteq Kind

\* An engine object.  Fields a class does not have are 0; child is the
\* IVF's quantizer, the IDMap's or the Refine's base, NULL for the leaf
\* classes; refine is the Refine's refine index; shards the Shards' list;
\* labels the float IVF's stored labels.
Obj == [kind : Kind, metric : {"L2", "IP"}, ntotal : Nat, trained : BOOLEAN,
        nprobe : Nat, efSearch : Nat, efConstruction : Nat, kfactor : Nat,
        child : Slot \cup {NULL}, refine : Slot \cup {NULL}, shards : Seq(Slot),
        ids : Seq(LabelVal), labels : [LabelVal -> 0..MaxN]]

VARIABLES
  idx,      \* idx[s]: the engine object at s, or NULL before allocation
  last,     \* the last facade call: its name, handle, return code and output
  crashed   \* the process died on a fault no catch clause handles

vars == <<idx, last, crashed>>

-----------------------------------------------------------------------------
(* Helpers.                                                                *)

Live == {s \in Slot : idx[s] # NULL}

KindOf(h) == IF h \in Live THEN idx[h].kind ELSE "null"

\* The handles the object at w stores.
ChildrenOf(w) == ({idx[w].child, idx[w].refine} \cup Range(idx[w].shards)) \ {NULL}

\* The wrappers whose child is h.
WrappersOf(h) == {w \in Live : h \in ChildrenOf(w)}

\* Caller rule: a handle a live wrapper references is changed only through
\* that wrapper (IVFs may share a quantizer, which their training leaves
\* alone once it holds nlist centroids).
MayMutate(h) == SharedChildren \/ WrappersOf(h) = {}

Record(op, h, arg, rc, out) ==
  last' = [op |-> op, h |-> h, arg |-> arg, rc |-> rc, out |-> out]

\* A call that returns -1 and changes nothing: a failed dynamic_cast, or an
\* engine exception CATCH_AND_HANDLE turns into -1.
Reject(op, h, arg) ==
  /\ Record(op, h, arg, -1, 0)
  /\ UNCHANGED <<idx, crashed>>

\* A call that returns -1 after the engine changed the objects to o: an
\* exception thrown partway through.
Fail(op, h, arg, o) ==
  /\ idx' = o
  /\ Record(op, h, arg, -1, 0)
  /\ UNCHANGED crashed

\* A FAISS_ASSERT that fails: abort(), which no catch clause stops.
Abort(op, h, arg) ==
  /\ crashed' = TRUE
  /\ Record(op, h, arg, -1, 0)
  /\ UNCHANGED idx

\* A null handle dereferenced by `index->...`: a segmentation fault.
Crash(op, arg) ==
  /\ crashed' = TRUE
  /\ Record(op, NULL, arg, -1, 0)
  /\ UNCHANGED idx

\* A call that dereferences h without a check.
Call(op, h, arg, Body) ==
  \/ h = NULL /\ Crash(op, arg)
  \/ h \in Live /\ Body

\* A call that first does dynamic_cast<K*>(h) and returns -1 on a mismatch.
CastCall(op, h, arg, k, Body) ==
  \/ KindOf(h) # k /\ Reject(op, h, arg)
  \/ KindOf(h) = k /\ Body

\* A successful call that leaves the objects as they are.
Observe(op, h, arg, out) ==
  /\ Record(op, h, arg, 0, out)
  /\ UNCHANGED <<idx, crashed>>

\* A successful call that changes the objects to o.
Update(op, h, arg, o, out) ==
  /\ idx' = o
  /\ Record(op, h, arg, 0, out)
  /\ UNCHANGED crashed

FreeSlot == CHOOSE f \in Slot : idx[f] = NULL

Leaf(k, trained) ==
  [kind |-> k, metric |-> IF k = "IndexFlatIP" THEN "IP" ELSE "L2", ntotal |-> 0,
   trained |-> trained, nprobe |-> 0, efSearch |-> 0, efConstruction |-> 0,
   kfactor |-> 0, child |-> NULL, refine |-> NULL, shards |-> <<>>, ids |-> <<>>,
   labels |-> NoLabels]

\* The objects after c stores one row labelled l: a float IVF keeps the
\* label with the row in its list, the other classes number rows by
\* position.
AddRow(o, c, l) ==
  [o EXCEPT ![c].ntotal = @ + 1,
            ![c].labels = IF o[c].kind = "IndexIVFFlat" THEN [@ EXCEPT ![l] = @ + 1]
                          ELSE @]

\* The number of shards syncWithSubIndexes gets through: it stops at the
\* first shard whose is_trained differs from the first shard's.
SyncedPrefix(o, s) ==
  LET sh  == o[s].shards
      odd == {i \in DOMAIN sh : o[sh[i]].trained # o[sh[1]].trained}
  IN  IF odd = {} THEN Len(sh) ELSE (CHOOSE i \in odd : \A j \in odd : i <= j) - 1

\* IndexShards::syncWithSubIndexes, run after every add_shard, train and
\* add: metric, is_trained and ntotal of the first shard, then the ntotal
\* of each further shard added in order, until one whose is_trained
\* differs throws (the fields already written stay); an empty container
\* is untrained and empty.  SyncThrows: that throw happens.
Sync(o, s) ==
  LET sh == o[s].shards IN
  IF sh = <<>> THEN [o EXCEPT ![s].trained = FALSE, ![s].ntotal = 0]
  ELSE [o EXCEPT ![s].metric = o[sh[1]].metric, ![s].trained = o[sh[1]].trained,
                 ![s].ntotal = SumFunctionOnSet([i \in DOMAIN sh |-> o[sh[i]].ntotal],
                                                1..SyncedPrefix(o, s))]

SyncThrows(o, s) == SyncedPrefix(o, s) < Len(o[s].shards)

\* A call on Shards container s that ends with a sync of the objects o:
\* 0, or -1 with the partial sync when it throws.
SyncAndReturn(op, s, arg, o) ==
  IF SyncThrows(o, s) THEN Fail(op, s, arg, Sync(o, s))
  ELSE Update(op, s, arg, Sync(o, s), 0)

\* The index a search or add on h finally reaches is trained.
RECURSIVE Searchable(_)
Searchable(h) ==
  IF idx[h].kind = "IndexIDMap" THEN Searchable(idx[h].child) ELSE idx[h].trained

RECURSIVE Train(_, _), TrainEach(_, _)
\* The objects after train() on every index of the sequence hs, in order.
TrainEach(o, hs) == IF hs = <<>> THEN o ELSE TrainEach(Train(o, Head(hs)), Tail(hs))

\* The objects after h->train(): an IVF (float or binary) trains its
\* quantizer unless it already holds nlist centroids (k-means resets it
\* and adds nlist centroids), an
\* IDMap trains its base and copies base->is_trained, the rest are always
\* trained.
Train(o, h) ==
  CASE o[h].kind \in IVFKind ->
         LET q == o[h].child
             o1 == IF o[q].trained /\ o[q].ntotal = NLIST THEN o
                   ELSE [o EXCEPT ![q].ntotal = NLIST]
         IN  [o1 EXCEPT ![h].trained = TRUE]
    [] o[h].kind = "IndexIDMap" ->
         LET o1 == Train(o, o[h].child)
         IN  [o1 EXCEPT ![h].trained = o1[o[h].child].trained]
    [] o[h].kind = "IndexRefine" ->
         [TrainEach(o, <<o[h].child, o[h].refine>>) EXCEPT ![h].trained = TRUE]
    [] o[h].kind = "IndexShards" -> Sync(TrainEach(o, o[h].shards), h) \* all trained: no throw
    [] OTHER -> o

RECURSIVE Reset(_, _), ResetEach(_, _)
\* The objects after reset() on every index of the sequence hs.
ResetEach(o, hs) == IF hs = <<>> THEN o ELSE ResetEach(Reset(o, Head(hs)), Tail(hs))

\* The objects after h->reset(): ntotal 0; an IDMap clears id_map and
\* resets its base, a Refine both children, Shards every shard (what a
\* sync would also give it: ntotal 0, metric and is_trained unchanged).
\* IVF keeps its quantizer.
Reset(o, h) ==
  CASE o[h].kind = "IndexIDMap" ->
         [Reset(o, o[h].child) EXCEPT ![h].ntotal = 0, ![h].ids = <<>>]
    [] o[h].kind = "IndexRefine" ->
         [ResetEach(o, <<o[h].child, o[h].refine>>) EXCEPT ![h].ntotal = 0]
    [] o[h].kind = "IndexShards" -> [ResetEach(o, o[h].shards) EXCEPT ![h].ntotal = 0]
    [] OTHER -> [o EXCEPT ![h].ntotal = 0, ![h].labels = NoLabels]

-----------------------------------------------------------------------------
(* Constructors.                                                           *)

Init ==
  /\ idx = [s \in Slot |-> NULL]
  /\ last = [op |-> "none", h |-> NULL, arg |-> 0, rc |-> 0, out |-> 0]
  /\ crashed = FALSE

\* faiss_IndexFlatL2_new
IndexFlatL2_new ==
  /\ ~crashed /\ "IndexFlatL2" \in Built
  /\ \E f \in Slot : idx[f] = NULL
  /\ idx' = [idx EXCEPT ![FreeSlot] = Leaf("IndexFlatL2", TRUE)]
  /\ Record("IndexFlatL2_new", FreeSlot, 0, 0, 0)
  /\ UNCHANGED crashed

\* faiss_IndexFlatIP_new
IndexFlatIP_new ==
  /\ ~crashed /\ "IndexFlatIP" \in Built
  /\ \E f \in Slot : idx[f] = NULL
  /\ idx' = [idx EXCEPT ![FreeSlot] = Leaf("IndexFlatIP", TRUE)]
  /\ Record("IndexFlatIP_new", FreeSlot, 0, 0, 0)
  /\ UNCHANGED crashed

\* faiss_IndexHNSWFlat_new
IndexHNSWFlat_new ==
  /\ ~crashed /\ "IndexHNSWFlat" \in Built
  /\ \E f \in Slot : idx[f] = NULL
  /\ idx' = [idx EXCEPT ![FreeSlot] =
               [Leaf("IndexHNSWFlat", TRUE) EXCEPT !.efSearch = DefaultEfSearch,
                                                   !.efConstruction = DefaultEfConstruction]]
  /\ Record("IndexHNSWFlat_new", FreeSlot, 0, 0, 0)
  /\ UNCHANGED crashed

\* faiss_IndexIVFFlat_new: is_trained iff the quantizer already holds nlist
\* trained centroids.  The caller's quantizer is a flat index.
IndexIVFFlat_new(q) ==
  /\ ~crashed /\ "IndexIVFFlat" \in Built
  /\ \E f \in Slot : idx[f] = NULL
  /\ KindOf(q) = "IndexFlatL2"
  /\ SharedChildren \/ \A w \in WrappersOf(q) : idx[w].kind = "IndexIVFFlat"
  /\ idx' = [idx EXCEPT ![FreeSlot] =
               [Leaf("IndexIVFFlat", idx[q].trained /\ idx[q].ntotal = NLIST)
                  EXCEPT !.nprobe = DefaultNprobe, !.child = q]]
  /\ Record("IndexIVFFlat_new", FreeSlot, q, 0, 0)
  /\ UNCHANGED crashed

\* faiss_IndexIDMap_new: the engine refuses a base that is not empty.
\* The caller never maps ids over a Refine or a Shards container.
IndexIDMap_new(b) ==
  /\ ~crashed /\ "IndexIDMap" \in Built
  /\ \E f \in Slot : idx[f] = NULL
  /\ b \in Live /\ KindOf(b) \notin BinaryKind \cup {"IndexRefine", "IndexShards"}
  /\ MayMutate(b)
  /\ IF idx[b].ntotal # 0
       THEN Reject("IndexIDMap_new", NULL, b)
       ELSE /\ idx' = [idx EXCEPT ![FreeSlot] =
                         [Leaf("IndexIDMap", idx[b].trained) EXCEPT !.child = b]]
            /\ Record("IndexIDMap_new", FreeSlot, b, 0, 0)
            /\ UNCHANGED crashed

\* faiss_IndexRefine_new: the engine throws unless both children have the
\* same metric and ntotal; is_trained is both children's, k_factor 1.
IndexRefine_new(b, r) ==
  /\ ~crashed /\ "IndexRefine" \in Built
  /\ \E f \in Slot : idx[f] = NULL
  /\ b # r /\ KindOf(b) \in RefineOver /\ KindOf(r) \in RefineOver
  /\ MayMutate(b) /\ MayMutate(r)
  /\ IF idx[b].metric # idx[r].metric \/ idx[b].ntotal # idx[r].ntotal
       THEN Reject("IndexRefine_new", NULL, b)
       ELSE /\ idx' = [idx EXCEPT ![FreeSlot] =
                         [Leaf("IndexRefine", idx[b].trained /\ idx[r].trained)
                            EXCEPT !.metric = idx[b].metric, !.ntotal = idx[b].ntotal,
                                   !.kfactor = 1, !.child = b, !.refine = r]]
            /\ Record("IndexRefine_new", FreeSlot, b, 0, 0)
            /\ UNCHANGED crashed

\* faiss_IndexShards_new: metric_type is discarded; IndexShards(d) is L2,
\* trained and empty until its first sync.
IndexShards_new ==
  /\ ~crashed /\ "IndexShards" \in Built
  /\ \E f \in Slot : idx[f] = NULL
  /\ idx' = [idx EXCEPT ![FreeSlot] = Leaf("IndexShards", TRUE)]
  /\ Record("IndexShards_new", FreeSlot, 0, 0, 0)
  /\ UNCHANGED crashed

\* Variant of IndexShards_add_shard whose engine appends the shard but
\* does not sync the container.
IndexShards_add_shard_unsynced(s, c) ==
  /\ ~crashed
  /\ CastCall("IndexShards_add_shard", s, c, "IndexShards",
              /\ KindOf(c) \notin BinaryKind \cup {"null", "IndexShards"}
              /\ MayMutate(s) /\ MayMutate(c)
              /\ c \notin Range(idx[s].shards)
              /\ Update("IndexShards_add_shard", s, c,
                        [idx EXCEPT ![s].shards = Append(@, c)], 0))

\* faiss_IndexShards_add_shard: dynamic_cast, then the engine's addIndex
\* throws for a shard already in the list or whose metric differs from
\* the first shard's, else appends it and syncs, which throws (with the
\* shard kept) if its is_trained differs; a NULL shard is dereferenced.
\* The caller never nests a Shards container.
IndexShards_add_shard(s, c) ==
  /\ ~crashed
  /\ CastCall("IndexShards_add_shard", s, c, "IndexShards",
              \/ c = NULL /\ Crash("IndexShards_add_shard", c)
              \/ /\ KindOf(c) \notin BinaryKind \cup {"null", "IndexShards"}
                 /\ MayMutate(s) /\ MayMutate(c)
                 /\ LET sh == idx[s].shards IN
                    IF c \in Range(sh) \/ (sh # <<>> /\ idx[c].metric # idx[sh[1]].metric)
                      THEN Reject("IndexShards_add_shard", s, c)
                      ELSE SyncAndReturn("IndexShards_add_shard", s, c,
                                         [idx EXCEPT ![s].shards = Append(@, c)]))

-----------------------------------------------------------------------------
(* Common operations.                                                      *)

\* An index whose own add of one vector succeeds: trained, not an IDMap,
\* and (a bound of the model) below MaxN rows.
Accepts(c) ==
  idx[c].kind \notin {"IndexIDMap", "IndexRefine", "IndexShards"} /\ idx[c].trained
    /\ idx[c].ntotal < MaxN

\* IndexRefine::add: base_index->add, then refine_index->add, then
\* ntotal = refine_index->ntotal.  Over the RefineOver classes the refine
\* index accepts exactly when the base does (same ntotal, both trained),
\* so the case of a base that adds and a refine that throws is not reached.
RefineAdd(op, h) ==
  LET b == idx[h].child
      r == idx[h].refine
  IN  \/ ~Accepts(b) /\ Reject(op, h, 0)
      \/ /\ Accepts(b) /\ Accepts(r)
         /\ Update(op, h, 0, [AddRow(AddRow(idx, b, idx[b].ntotal), r, idx[r].ntotal)
                                EXCEPT ![h].ntotal = idx[r].ntotal + 1], 0)

\* The shard c takes add_with_ids, even of zero rows: an IVF when trained,
\* an IDMap whose base adds; every other class throws "add_with_ids not
\* implemented".
TakesIds(c) ==
  \/ idx[c].kind = "IndexIVFFlat" /\ idx[c].trained
  \/ idx[c].kind = "IndexIDMap" /\ idx[c].trained /\ idx[idx[c].child].kind # "IndexIDMap"

\* The objects after shard c's add_with_ids of one row labelled l.
AddWithId(o, c, l) ==
  IF o[c].kind = "IndexIDMap"
    THEN [AddRow(o, o[c].child, o[o[c].child].ntotal)
            EXCEPT ![c].ids = Append(@, l), ![c].ntotal = @ + 1]
    ELSE AddRow(o, c, l)

\* IndexShards::add_with_ids of one row labelled l (add passes ntotal + i
\* from the container's cached ntotal: the facade builds it with
\* successive_ids = false).  Shard no takes rows [no*n/nshard,
\* (no+1)*n/nshard), so the row goes to the last shard; runOnIndex calls
\* every shard, even on zero rows, gathers their exceptions and rethrows
\* them before the sync, so a throwing shard leaves the last shard's row
\* in place and the container's ntotal as it was.
ShardsAdd(op, h, l) ==
  LET sh == idx[h].shards
      c  == sh[Len(sh)]
  IN  IF sh = <<>> THEN SyncAndReturn(op, h, l, idx)
      ELSE /\ idx[c].ntotal < MaxN
           /\ idx[c].kind = "IndexIDMap" => idx[idx[c].child].ntotal < MaxN
           /\ LET o == IF TakesIds(c) THEN AddWithId(idx, c, l) ELSE idx
              IN  \/ /\ \E i \in DOMAIN sh : ~TakesIds(sh[i])
                     /\ Fail(op, h, l, o)
                  \/ /\ \A i \in DOMAIN sh : TakesIds(sh[i])
                     /\ SyncAndReturn(op, h, l, o)

\* index->add(n, x) on a one-vector batch: Shards as above (it checks no
\* is_trained), IDMap throws ("use add_with_ids"), an untrained index
\* throws, Refine as above, the others append with label ntotal.
AddBody(op, h) ==
  /\ MayMutate(h)
  /\ CASE idx[h].kind = "IndexShards" -> ShardsAdd(op, h, idx[h].ntotal)
       [] idx[h].kind = "IndexIDMap" \/ ~idx[h].trained -> Reject(op, h, 0)
       [] idx[h].kind = "IndexRefine" -> RefineAdd(op, h)
       [] OTHER -> /\ idx[h].ntotal < MaxN
                   /\ Update(op, h, 0, AddRow(idx, h, idx[h].ntotal), 0)

\* faiss_Index_add
Index_add(h) ==
  /\ ~crashed
  /\ Call("Index_add", h, 0, AddBody("Index_add", h))

\* IndexIDMap::add_with_ids: base->add, then id appended to id_map.  The
\* base throws if it is untrained or itself an IDMap; no id is checked.
IdMapAddWithIds(op, h, id) ==
  LET b == idx[h].child IN
  /\ MayMutate(h)
  /\ FreshIds => id \notin Range(idx[h].ids)
  /\ \/ /\ idx[b].kind = "IndexIDMap" \/ ~idx[b].trained
        /\ Reject(op, h, id)
     \/ /\ idx[b].kind # "IndexIDMap" /\ idx[b].trained
        /\ idx[h].ntotal < MaxN /\ idx[b].ntotal < MaxN
        /\ Update(op, h, id, [AddRow(idx, b, idx[b].ntotal)
                                EXCEPT ![h].ids = Append(@, id), ![h].ntotal = @ + 1], 0)

\* index->add_with_ids: IVF stores the id with the vector, IDMap and
\* Shards as above, the others throw "add_with_ids not implemented".
AddWithIdsBody(h, id) ==
  CASE idx[h].kind = "IndexIDMap" -> IdMapAddWithIds("Index_add_with_ids", h, id)
    [] idx[h].kind = "IndexIVFFlat" /\ idx[h].trained ->
         /\ MayMutate(h) /\ idx[h].ntotal < MaxN
         /\ Update("Index_add_with_ids", h, id, AddRow(idx, h, id), 0)
    [] idx[h].kind = "IndexShards" ->
         MayMutate(h) /\ ShardsAdd("Index_add_with_ids", h, id)
    [] OTHER -> Reject("Index_add_with_ids", h, id)

\* faiss_Index_add_with_ids
Index_add_with_ids(h, id) ==
  /\ ~crashed
  /\ Call("Index_add_with_ids", h, id, AddWithIdsBody(h, id))

\* Variant of faiss_IndexIDMap_add_with_ids that adds the vector to
\* idmap->index instead of to the IDMap.
IndexIDMap_add_with_ids_to_base(h, id) ==
  /\ ~crashed
  /\ CastCall("IndexIDMap_add_with_ids", h, id, "IndexIDMap",
              LET b == idx[h].child IN
              /\ MayMutate(h)
              /\ idx[b].kind # "IndexIDMap" /\ idx[b].trained /\ idx[b].ntotal < MaxN
              /\ Update("IndexIDMap_add_with_ids", h, id,
                        [idx EXCEPT ![b].ntotal = @ + 1], 0))

\* faiss_IndexIDMap_add_with_ids: dynamic_cast<IndexIDMap*>, then as above.
IndexIDMap_add_with_ids(h, id) ==
  /\ ~crashed
  /\ CastCall("IndexIDMap_add_with_ids", h, id, "IndexIDMap",
              IdMapAddWithIds("IndexIDMap_add_with_ids", h, id))

\* The labels of the rows of index b, with their counts: an IVF's stored
\* labels, a flat index's positions 0 .. ntotal-1.
RowLabels(b) ==
  IF idx[b].kind = "IndexIVFFlat" THEN idx[b].labels
  ELSE [l \in LabelVal |-> IF l < idx[b].ntotal THEN 1 ELSE 0]

\* The labels of b's rows that IDSelectorTranslated(id_map, sel) selects:
\* those whose id_map entry is in sel, and, for a label at or past the
\* end of id_map, whatever the out-of-bounds read finds (any of G).
Selected(b, ids, sel, G) ==
  {l \in LabelVal : RowLabels(b)[l] > 0 /\
                    IF l < Len(ids) THEN ids[l + 1] \in sel ELSE l \in G}

\* The labels present in b that lie outside id_map.
Unmapped(b, ids) == {l \in LabelVal : RowLabels(b)[l] > 0 /\ l >= Len(ids)}

\* The objects after b->remove_ids drops the rows labelled R: a flat index
\* compacts (its positions renumber), an IVF keeps the other labels as
\* they were.
BaseRemoved(b, R) ==
  [idx EXCEPT ![b].ntotal = @ - SumFunctionOnSet(RowLabels(b), R),
              ![b].labels = [l \in LabelVal |-> IF l \in R THEN 0 ELSE @[l]]]

RemoveBody(h, sel) ==
  LET b    == idx[h].child
      ids  == idx[h].ids
      keep == SelectSeq(ids, LAMBDA x : x \notin sel)
  IN  /\ MayMutate(h)
      /\ \/ /\ idx[b].kind \notin FlatKind \cup {"IndexIVFFlat"}
            /\ Reject("IndexIDMap_remove_ids", h, sel)
         \/ /\ idx[b].kind \in FlatKind \cup {"IndexIVFFlat"}
            /\ \E G \in SUBSET Unmapped(b, ids) :
                 LET R    == Selected(b, ids, sel, G)
                     nrem == SumFunctionOnSet(RowLabels(b), R)
                 IN  \/ /\ Len(keep) = idx[b].ntotal - nrem
                        /\ Update("IndexIDMap_remove_ids", h, sel,
                                  [BaseRemoved(b, R) EXCEPT ![h].ids = keep,
                                                            ![h].ntotal = Len(keep)], nrem)
                     \/ /\ Len(keep) # idx[b].ntotal - nrem
                        /\ Abort("IndexIDMap_remove_ids", h, sel)

\* Variant of faiss_IndexIDMap_remove_ids that takes the number of ids
\* requested, n_ids, for the number removed.
IndexIDMap_remove_ids_by_request(h, sel) ==
  /\ ~crashed
  /\ CastCall("IndexIDMap_remove_ids", h, sel, "IndexIDMap",
              LET b    == idx[h].child
                  keep == SelectSeq(idx[h].ids, LAMBDA x : x \notin sel)
              IN  /\ MayMutate(h)
                  /\ idx[b].kind \in FlatKind \cup {"IndexIVFFlat"}
                  /\ Update("IndexIDMap_remove_ids", h, sel,
                            [idx EXCEPT ![b].ntotal = Len(keep), ![h].ids = keep,
                                        ![h].ntotal = @ - Cardinality(sel)],
                            Cardinality(sel)))

\* faiss_IndexIDMap_remove_ids
IndexIDMap_remove_ids(h, sel) ==
  /\ ~crashed
  /\ CastCall("IndexIDMap_remove_ids", h, sel, "IndexIDMap", RemoveBody(h, sel))

\* faiss_Index_train
Index_train(h) ==
  /\ ~crashed
  /\ Call("Index_train", h, 0, MayMutate(h) /\ Update("Index_train", h, 0, Train(idx, h), 0))

\* faiss_Index_reset
Index_reset(h) ==
  /\ ~crashed
  /\ Call("Index_reset", h, 0, MayMutate(h) /\ Update("Index_reset", h, 0, Reset(idx, h), 0))

\* faiss_Index_search: the engine throws when the index the search reaches
\* is untrained.
Index_search(h) ==
  /\ ~crashed
  /\ Call("Index_search", h, 0,
          IF Searchable(h) THEN Observe("Index_search", h, 0, 0)
          ELSE Reject("Index_search", h, 0))

\* faiss_Index_assign: dynamic_cast<IndexIVF*>, then the quantizer assigns.
Index_assign(h) ==
  /\ ~crashed
  /\ CastCall("Index_assign", h, 0, "IndexIVFFlat", Observe("Index_assign", h, 0, 0))

\* faiss_Index_reconstruct, _reconstruct_n, _range_search, faiss_Index_d:
\* read-only calls whose success depends on arguments not modelled.
Index_query(op, h) ==
  /\ ~crashed
  /\ Call(op, h, 0, \/ Observe(op, h, 0, 0)
                    \/ Reject(op, h, 0))

\* faiss_Index_ntotal
Index_ntotal(h) ==
  /\ ~crashed
  /\ Call("Index_ntotal", h, 0, Observe("Index_ntotal", h, 0, idx[h].ntotal))

\* faiss_Index_is_trained
Index_is_trained(h) ==
  /\ ~crashed
  /\ Call("Index_is_trained", h, 0,
          Observe("Index_is_trained", h, 0, IF idx[h].trained THEN 1 ELSE 0))

-----------------------------------------------------------------------------
(* Capability dispatch.                                                    *)

\* faiss_IndexIVF_set_nprobe: the int64_t argument is stored into size_t nprobe.
IndexIVF_set_nprobe(h, v) ==
  /\ ~crashed
  /\ CastCall("IndexIVF_set_nprobe", h, v, "IndexIVFFlat",
              Update("IndexIVF_set_nprobe", h, v, [idx EXCEPT ![h].nprobe = ToSizeT(v)], 0))

\* faiss_IndexIVF_get_nprobe: the size_t nprobe is copied into an int64_t.
IndexIVF_get_nprobe(h) ==
  /\ ~crashed
  /\ CastCall("IndexIVF_get_nprobe", h, 0, "IndexIVFFlat",
              Observe("IndexIVF_get_nprobe", h, 0, ToInt64(idx[h].nprobe)))

\* faiss_IndexHNSW_set_efConstruction
IndexHNSW_set_efConstruction(h, v) ==
  /\ ~crashed
  /\ CastCall("IndexHNSW_set_efConstruction", h, v, "IndexHNSWFlat",
              Update("IndexHNSW_set_efConstruction", h, v, [idx EXCEPT ![h].efConstruction = v], 0))

\* faiss_IndexHNSW_set_efSearch
IndexHNSW_set_efSearch(h, v) ==
  /\ ~crashed
  /\ CastCall("IndexHNSW_set_efSearch", h, v, "IndexHNSWFlat",
              Update("IndexHNSW_set_efSearch", h, v, [idx EXCEPT ![h].efSearch = v], 0))

\* faiss_IndexHNSW_get_efConstruction
IndexHNSW_get_efConstruction(h) ==
  /\ ~crashed
  /\ CastCall("IndexHNSW_get_efConstruction", h, 0, "IndexHNSWFlat",
              Observe("IndexHNSW_get_efConstruction", h, 0, idx[h].efConstruction))

\* faiss_IndexHNSW_get_efSearch
IndexHNSW_get_efSearch(h) ==
  /\ ~crashed
  /\ CastCall("IndexHNSW_get_efSearch", h, 0, "IndexHNSWFlat",
              Observe("IndexHNSW_get_efSearch", h, 0, idx[h].efSearch))

\* faiss_IndexRefine_set_k_factor (a float; the caller's values are small
\* integers).
IndexRefine_set_k_factor(h, v) ==
  /\ ~crashed
  /\ CastCall("IndexRefine_set_k_factor", h, v, "IndexRefine",
              Update("IndexRefine_set_k_factor", h, v, [idx EXCEPT ![h].kfactor = v], 0))

-----------------------------------------------------------------------------
(* Binary indexes.                                                         *)

\* faiss_IndexBinaryFlat_new: always trained.
IndexBinaryFlat_new ==
  /\ ~crashed /\ "IndexBinaryFlat" \in Built
  /\ \E f \in Slot : idx[f] = NULL
  /\ idx' = [idx EXCEPT ![FreeSlot] = Leaf("IndexBinaryFlat", TRUE)]
  /\ Record("IndexBinaryFlat_new", FreeSlot, 0, 0, 0)
  /\ UNCHANGED crashed

\* faiss_IndexBinaryIVF_new: as IndexIVFFlat_new, over a binary flat
\* quantizer.
IndexBinaryIVF_new(q) ==
  /\ ~crashed /\ "IndexBinaryIVF" \in Built
  /\ \E f \in Slot : idx[f] = NULL
  /\ KindOf(q) = "IndexBinaryFlat"
  /\ SharedChildren \/ \A w \in WrappersOf(q) : idx[w].kind = "IndexBinaryIVF"
  /\ idx' = [idx EXCEPT ![FreeSlot] =
               [Leaf("IndexBinaryIVF", idx[q].trained /\ idx[q].ntotal = NLIST)
                  EXCEPT !.nprobe = DefaultNprobe, !.child = q]]
  /\ Record("IndexBinaryIVF_new", FreeSlot, q, 0, 0)
  /\ UNCHANGED crashed

\* faiss_IndexBinary_add
IndexBinary_add(h) ==
  /\ ~crashed
  /\ Call("IndexBinary_add", h, 0, AddBody("IndexBinary_add", h))

\* faiss_IndexBinary_search: an untrained binary IVF throws.
IndexBinary_search(h) ==
  /\ ~crashed
  /\ Call("IndexBinary_search", h, 0,
          IF idx[h].trained THEN Observe("IndexBinary_search", h, 0, 0)
          ELSE Reject("IndexBinary_search", h, 0))

\* Variant of faiss_IndexBinary_train that sets is_trained without
\* training the quantizer.
IndexBinary_train_flag_only(h) ==
  /\ ~crashed
  /\ Call("IndexBinary_train", h, 0,
          MayMutate(h) /\ Update("IndexBinary_train", h, 0, [idx EXCEPT ![h].trained = TRUE], 0))

\* faiss_IndexBinary_train
IndexBinary_train(h) ==
  /\ ~crashed
  /\ Call("IndexBinary_train", h, 0,
          MayMutate(h) /\ Update("IndexBinary_train", h, 0, Train(idx, h), 0))

\* faiss_IndexBinary_reset
IndexBinary_reset(h) ==
  /\ ~crashed
  /\ Call("IndexBinary_reset", h, 0,
          MayMutate(h) /\ Update("IndexBinary_reset", h, 0, Reset(idx, h), 0))

\* faiss_IndexBinary_ntotal
IndexBinary_ntotal(h) ==
  /\ ~crashed
  /\ Call("IndexBinary_ntotal", h, 0, Observe("IndexBinary_ntotal", h, 0, idx[h].ntotal))

\* faiss_IndexBinary_is_trained
IndexBinary_is_trained(h) ==
  /\ ~crashed
  /\ Call("IndexBinary_is_trained", h, 0,
          Observe("IndexBinary_is_trained", h, 0, IF idx[h].trained THEN 1 ELSE 0))

\* faiss_IndexBinaryIVF_set_nprobe
IndexBinaryIVF_set_nprobe(h, v) ==
  /\ ~crashed
  /\ CastCall("IndexBinaryIVF_set_nprobe", h, v, "IndexBinaryIVF",
              Update("IndexBinaryIVF_set_nprobe", h, v,
                     [idx EXCEPT ![h].nprobe = ToSizeT(v)], 0))

Handle == Slot \cup {NULL}

\* The handles of each C type the caller can hold (NULL is both).
FloatHandle == {h \in Handle : KindOf(h) \notin BinaryKind}
BinaryHandle == {h \in Handle : KindOf(h) \notin Kind \ BinaryKind}

Next ==
  \/ IndexFlatL2_new
  \/ IndexHNSWFlat_new
  \/ IndexFlatIP_new
  \/ IndexShards_new
  \/ \E b, r \in Slot : IndexRefine_new(b, r)
  \/ IndexBinaryFlat_new
  \/ \E s \in Slot : IndexIVFFlat_new(s) \/ IndexIDMap_new(s) \/ IndexBinaryIVF_new(s)
  \/ \E h \in BinaryHandle :
       \/ IndexBinary_add(h)
       \/ IndexBinary_search(h)
       \/ IndexBinary_train(h)
       \/ IndexBinary_reset(h)
       \/ IndexBinary_ntotal(h)
       \/ IndexBinary_is_trained(h)
       \/ \E v \in NprobeVal : IndexBinaryIVF_set_nprobe(h, v)
  \/ \E h \in FloatHandle :
       \/ Index_add(h)
       \/ Index_train(h)
       \/ Index_reset(h)
       \/ Index_search(h)
       \/ Index_assign(h)
       \/ Index_ntotal(h)
       \/ Index_is_trained(h)
       \/ \E op \in {"Index_reconstruct", "Index_reconstruct_n",
                     "Index_range_search", "Index_d"} : Index_query(op, h)
       \/ \E id \in Id : Index_add_with_ids(h, id) \/ IndexIDMap_add_with_ids(h, id)
       \/ \E sel \in SUBSET Id \ {{}} : IndexIDMap_remove_ids(h, sel)
       \/ \E v \in NprobeVal : IndexIVF_set_nprobe(h, v)
       \/ IndexIVF_get_nprobe(h)
       \/ \E v \in EfVal : IndexHNSW_set_efConstruction(h, v) \/ IndexHNSW_set_efSearch(h, v)
       \/ IndexHNSW_get_efConstruction(h)
       \/ IndexHNSW_get_efSearch(h)
       \/ \E v \in KFactorVal : IndexRefine_set_k_factor(h, v)
       \/ \E c \in Handle : IndexShards_add_shard(h, c)

Spec == Init /\ [][Next]_vars

-----------------------------------------------------------------------------
(* Properties.                                                             *)

TypeOK ==
  /\ idx \in [Slot -> Obj \cup {NULL}]
  /\ \A s \in Live : idx[s].ntotal <= MaxN * Cardinality(Slot)
  /\ last.rc \in {0, -1}
  /\ crashed \in BOOLEAN

\* The state a wrapper caches agrees with its child: an IDMap's id_map has
\* one id per row of its base and the IDMap reports the base's is_trained;
\* a trained IVF's quantizer holds exactly nlist centroids.  Searches map
\* base rows through id_map and IVF lists through the quantizer, so a
\* mismatch is an out-of-range read.
WrapperCoherent ==
  \A w \in Live :
    /\ idx[w].kind = "IndexIDMap" =>
         /\ idx[idx[w].child].ntotal = Len(idx[w].ids)
         /\ idx[idx[w].child].trained = idx[w].trained
    /\ idx[w].kind \in IVFKind /\ idx[w].trained =>
         idx[idx[w].child].ntotal = NLIST

\* The composite wrappers agree with their children: a Refine reports the
\* ntotal of both its base and its refine index (search re-ranks base hits
\* by refine rows with the same numbers), and a Shards container with a
\* shard reports the sum of its shards' ntotal and the metric every shard
\* has (results are merged by that metric; faiss_IndexShards_new discards
\* the caller's metric_type, so only the sync on add_shard sets it).
CompositeCoherent ==
  \A w \in Live :
    /\ idx[w].kind = "IndexRefine" =>
         /\ idx[idx[w].child].ntotal = idx[w].ntotal
         /\ idx[idx[w].refine].ntotal = idx[w].ntotal
    /\ idx[w].kind = "IndexShards" /\ idx[w].shards # <<>> =>
         /\ idx[w].ntotal = SumFunction([i \in DOMAIN idx[w].shards |->
                                           idx[idx[w].shards[i]].ntotal])
         /\ \A c \in Range(idx[w].shards) : idx[c].metric = idx[w].metric

\* An IDMap over an IVF can name every row of its base: the IVF's rows
\* carry the labels 0 .. Len(id_map)-1, one each, so that a search, which
\* reports label l as id_map[l], reports the id each row was added with.
\* The IVF labels a row with its ntotal at add time and never renumbers
\* them, while remove_ids compacts id_map.
IdMapLabelsResolve ==
  \A w \in Live :
    idx[w].kind = "IndexIDMap" /\ KindOf(idx[w].child) = "IndexIVFFlat" =>
      \A l \in LabelVal :
        idx[idx[w].child].labels[l] = IF l < Len(idx[w].ids) THEN 1 ELSE 0

\* The id set and ntotal of every IDMap, as IdIndex sees them.
AbstractIds == INSTANCE IdIndex WITH
  Handle <- Slot,
  present <- [s \in Slot |-> IF KindOf(s) = "IndexIDMap" THEN Range(idx[s].ids) ELSE NULL],
  count <- [s \in Slot |-> IF KindOf(s) = "IndexIDMap" THEN idx[s].ntotal ELSE 0]

=============================================================================
