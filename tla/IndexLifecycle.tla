--------------------------- MODULE IndexLifecycle ---------------------------
(***************************************************************************)
(* Lifetime and ownership of the engine objects behind the opaque handles *)
(* of the C facade, src/faiss_c_impl.cpp.                                 *)
(*                                                                         *)
(* Every constructor allocates one engine object and hands its address to *)
(* the caller.  The composite constructors (IVF, IDMap, Refine,           *)
(* PreTransform, Shards) store the addresses of child objects; when the   *)
(* wrapper is deleted, the engine's destructor deletes the children it    *)
(* owns and leaves the others alone.  The caller frees what it holds with *)
(* faiss_Index_free / faiss_VectorTransform_free, which are plain         *)
(* `delete`s.  Nothing in the facade checks whether a handle is live,     *)
(* already owned, or still referenced.                                     *)
(*                                                                         *)
(* Data is abstracted away: an object is its class, its life state and    *)
(* its list of children.  A common operation (add, search, train, ...)    *)
(* on a wrapper reaches every object below it.                             *)
(***************************************************************************)
EXTENDS Naturals, Sequences, FiniteSets, Functions

CONSTANTS
  Slot,              \* addresses an engine object can be allocated at
  NULL,              \* the null handle
  LeafKind,          \* index classes whose constructor takes no child
  BinaryLeafKind,    \* binary index classes whose constructor takes no child
  Cuda,              \* the facade is built with FAISS_GPU
  EngineOwned,       \* child roles whose object the wrapper's destructor deletes
  DocumentedOwned,   \* child roles the documentation says ownership passes in
  ExclusiveTransfer  \* caller rule: a handle given away is never passed again

Role == {"ivf_quantizer", "idmap_base", "refine_base", "refine_refine",
         "pt_transform", "pt_base", "shard", "binivf_quantizer", "gpu_res"}

WrapperKind == {"IndexIVFFlat", "IndexIDMap", "IndexRefine",
                "IndexPreTransform", "IndexShards"}

\* Every device-resident index (GpuIndexFlat, GpuIndexIVFFlat and the GPU
\* clones): a FaissIndex that references the resource it was built on.
IndexKind == LeafKind \cup WrapperKind \cup {"GpuIndex"}

\* FaissIndexBinary: a handle type of its own.
BinaryKind == BinaryLeafKind \cup {"IndexBinaryIVF"}

Kind == IndexKind \cup BinaryKind \cup {"VectorTransform", "StandardGpuResources"}

ASSUME NULL \notin Slot
ASSUME EngineOwned \subseteq Role /\ DocumentedOwned \subseteq Role
ASSUME ExclusiveTransfer \in BOOLEAN /\ Cuda \in BOOLEAN

\* A delete count of MaxFrees means "deleted more than once".
MaxFrees == 2

Child == [obj : Slot, role : Role, owns : BOOLEAN]

VARIABLES
  kind,    \* kind[s]: class of the object at s, "none" before allocation
  life,    \* life[s]: "unalloc", "live" or "freed"
  frees,   \* frees[s]: how many times `delete` ran on s (capped at MaxFrees)
  kids,    \* kids[s]: the children object s stores, in insertion order
  held,    \* handles the caller itself must still free
  uaf,     \* some call reached an object that had already been deleted
  status   \* return code of the last facade call

vars == <<kind, life, frees, kids, held, uaf, status>>

-----------------------------------------------------------------------------
(* The object graph.                                                       *)

Children(w) == {kids[w][i].obj : i \in DOMAIN kids[w]}

\* The children w stores in one of the roles R.
ChildrenIn(w, R) == {kids[w][i].obj : i \in {j \in DOMAIN kids[w] : kids[w][j].role \in R}}

RECURSIVE Below(_, _, _)
\* The objects reachable from the set S in at most n links of a role in R
\* (S itself included).
Below(S, R, n) ==
  IF n = 0 THEN S
  ELSE Below(S \cup UNION {ChildrenIn(w, R) : w \in S}, R, n - 1)

\* Everything a call on h reaches: h and every object below it.
Reached(h) == Below({h}, Role, Cardinality(Slot))

\* Handles the caller may still use: those it holds, and those it gave to
\* an owner, per the documentation, that it can still use.
Usable == Below(held, DocumentedOwned, Cardinality(Slot))

\* Objects some chain of engine ownership from a held handle would delete.
Accounted == Below(held, EngineOwned, Cardinality(Slot))

RECURSIVE DeletesEveryChild(_, _)
\* Variant of Deletes: a destructor that deletes every child it stores,
\* owned or only referenced (a wrapper built with own_fields = true).
DeletesEveryChild(s, depth) ==
  LET sub == [i \in DOMAIN kids[s] |-> IF depth = 0 THEN [o \in Slot |-> 0]
                                       ELSE DeletesEveryChild(kids[s][i].obj, depth - 1)]
  IN  [o \in Slot |-> (IF o = s THEN 1 ELSE 0)
                        + SumFunctionOnSet([i \in DOMAIN kids[s] |-> sub[i][o]], DOMAIN kids[s])]

\* Variant of Deletes: a destructor that forgets the children it owns.
DeletesOnlySelf(s, depth) == [o \in Slot |-> IF o = s THEN 1 ELSE 0]

RECURSIVE Deletes(_, _)
\* How many times each object is deleted by `delete s`: s once, then the
\* destructor of s deletes every child it owns, one list entry at a time.
\* depth bounds the cascade when a wrapper (wrongly) owns itself.
Deletes(s, depth) ==
  LET own == {i \in DOMAIN kids[s] : kids[s][i].owns}
      sub == [i \in own |-> IF depth = 0 THEN [o \in Slot |-> 0]
                            ELSE Deletes(kids[s][i].obj, depth - 1)]
  IN  [o \in Slot |-> (IF o = s THEN 1 ELSE 0)
                        + SumFunctionOnSet([i \in own |-> sub[i][o]], own)]

-----------------------------------------------------------------------------
(* Caller discipline.                                                      *)

\* The caller passes c as a child in role r only if it may still use c and,
\* under ExclusiveTransfer, only if c is its own to give: held, and for an
\* owning role referenced by no wrapper the caller can still reach.
CanPass(c, r) ==
  /\ c \in Usable
  /\ ExclusiveTransfer =>
        /\ c \in held
        /\ r \in DocumentedOwned =>
              \A w \in Usable \ {c} : c \notin Children(w)

\* The caller frees h only if it holds h and no wrapper it can still use
\* references h.
CanFree(h) ==
  /\ h \in held
  /\ \A w \in Usable \ {h} : h \notin Children(w)

FreeSlot == CHOOSE f \in Slot : life[f] = "unalloc"

HasFreeSlot == \E f \in Slot : life[f] = "unalloc"

-----------------------------------------------------------------------------
(* Facade calls.                                                           *)

Init ==
  /\ kind = [s \in Slot |-> "none"]
  /\ life = [s \in Slot |-> "unalloc"]
  /\ frees = [s \in Slot |-> 0]
  /\ kids = [s \in Slot |-> <<>>]
  /\ held = {}
  /\ uaf = FALSE
  /\ status = 0

\* The engine constructors read d, ntotal and metric of every child.
ReadsFreed(cs) == \E i \in DOMAIN cs : life[cs[i][1]] = "freed"

\* `*p_index = new K(children...)` succeeds: the new object records each
\* child with the ownership the engine gives its role; the caller stops
\* holding the children the documentation says it gave away.  The engine
\* also reads every object in R (the source of a clone).
ConstructReading(k, cs, R) ==
  LET f == FreeSlot IN
  /\ kind' = [kind EXCEPT ![f] = k]
  /\ life' = [life EXCEPT ![f] = "live"]
  /\ kids' = [kids EXCEPT ![f] =
                [i \in DOMAIN cs |-> [obj |-> cs[i][1], role |-> cs[i][2],
                                      owns |-> cs[i][2] \in EngineOwned]]]
  /\ held' = (held \cup {f}) \
               {cs[i][1] : i \in {j \in DOMAIN cs : cs[j][2] \in DocumentedOwned}}
  /\ uaf' = (uaf \/ ReadsFreed(cs) \/ \E o \in R : life[o] = "freed")
  /\ status' = 0
  /\ UNCHANGED frees

Construct(k, cs) == ConstructReading(k, cs, {})

\* The engine constructor throws (dimension or size mismatch): CATCH_AND_HANDLE
\* returns -1 and the caller keeps every handle it passed.
Fail(cs) ==
  /\ uaf' = (uaf \/ ReadsFreed(cs))
  /\ status' = -1
  /\ UNCHANGED <<kind, life, frees, kids, held>>

IsIndex(h) == kind[h] \in IndexKind

IsBinary(h) == kind[h] \in BinaryKind

IsResources(r) == kind[r] = "StandardGpuResources"

\* faiss_IndexFlatL2_new / faiss_IndexFlatIP_new (and the other leaf
\* constructors): a new object with no children.
IndexFlat_new(k) ==
  /\ HasFreeSlot
  /\ Construct(k, <<>>)

\* faiss_PCAMatrix_new / faiss_OPQMatrix_new / faiss_RandomRotationMatrix_new
VectorTransform_new ==
  /\ HasFreeSlot
  /\ Construct("VectorTransform", <<>>)

\* faiss_IndexIVFFlat_new: the IVF stores the quantizer handle.
IndexIVFFlat_new(q) ==
  /\ HasFreeSlot /\ IsIndex(q) /\ CanPass(q, "ivf_quantizer")
  /\ \/ Construct("IndexIVFFlat", << <<q, "ivf_quantizer">> >>)
     \/ Fail(<< <<q, "ivf_quantizer">> >>)

\* faiss_IndexIDMap_new: the IDMap stores the base handle.
IndexIDMap_new(b) ==
  /\ HasFreeSlot /\ IsIndex(b) /\ CanPass(b, "idmap_base")
  /\ \/ Construct("IndexIDMap", << <<b, "idmap_base">> >>)
     \/ Fail(<< <<b, "idmap_base">> >>)

\* faiss_IndexRefine_new: stores the coarse and the refinement index.
IndexRefine_new(b, r) ==
  /\ HasFreeSlot /\ IsIndex(b) /\ IsIndex(r) /\ b # r
  /\ CanPass(b, "refine_base") /\ CanPass(r, "refine_refine")
  /\ \/ Construct("IndexRefine", << <<b, "refine_base">>, <<r, "refine_refine">> >>)
     \/ Fail(<< <<b, "refine_base">>, <<r, "refine_refine">> >>)

\* faiss_IndexPreTransform_new: stores the transform and the base index.
IndexPreTransform_new(t, b) ==
  /\ HasFreeSlot /\ kind[t] = "VectorTransform" /\ IsIndex(b)
  /\ CanPass(t, "pt_transform") /\ CanPass(b, "pt_base")
  /\ \/ Construct("IndexPreTransform", << <<t, "pt_transform">>, <<b, "pt_base">> >>)
     \/ Fail(<< <<t, "pt_transform">>, <<b, "pt_base">> >>)

\* faiss_IndexShards_new: an empty shard container.
IndexShards_new ==
  /\ HasFreeSlot
  /\ Construct("IndexShards", <<>>)

\* faiss_IndexShards_add_shard: dynamic_cast to IndexShards, else -1; the
\* engine appends the shard, or throws for a shard already in the list.
IndexShards_add_shard(s, c) ==
  /\ s \in Usable /\ IsIndex(s) /\ IsIndex(c)
  \* the caller never nests a container inside itself
  /\ s \notin Reached(c)
  /\ CanPass(c, "shard")
  /\ IF kind[s] # "IndexShards"
       THEN Fail(<<>>)
       ELSE \/ /\ c \notin Children(s)
               /\ kids' = [kids EXCEPT ![s] = Append(@,
                             [obj |-> c, role |-> "shard", owns |-> "shard" \in EngineOwned])]
               /\ held' = IF "shard" \in DocumentedOwned THEN held \ {c} ELSE held
               /\ uaf' = (uaf \/ ReadsFreed(<< <<c, "shard">> >>))
               /\ status' = 0
               /\ UNCHANGED <<kind, life, frees>>
            \/ Fail(<< <<c, "shard">> >>)

\* Any common operation (add, search, train, reset, reconstruct, ...) on an
\* index handle: the wrapper delegates to every object below it.
IndexOperation(h) ==
  /\ h \in Usable /\ IsIndex(h)
  /\ uaf' = (uaf \/ \E o \in Reached(h) : life[o] = "freed")
  /\ \E rc \in {0, -1} : status' = rc
  /\ UNCHANGED <<kind, life, frees, kids, held>>

\* faiss_VectorTransform_train / _apply / _reverse_transform
VectorTransformCall(t) ==
  /\ t \in Usable /\ kind[t] = "VectorTransform"
  /\ uaf' = (uaf \/ life[t] = "freed")
  /\ \E rc \in {0, -1} : status' = rc
  /\ UNCHANGED <<kind, life, frees, kids, held>>

\* `delete h`: h and, through the destructors, everything h owns.
Delete(h) ==
  LET d == Deletes(h, Cardinality(Slot)) IN
  /\ frees' = [o \in Slot |-> IF frees[o] + d[o] > MaxFrees THEN MaxFrees
                              ELSE frees[o] + d[o]]
  /\ life' = [o \in Slot |-> IF d[o] > 0 THEN "freed" ELSE life[o]]
  /\ held' = held \ {h}
  /\ UNCHANGED <<kind, kids, uaf, status>>

\* faiss_Index_free
Index_free(h) ==
  /\ IsIndex(h) /\ CanFree(h)
  /\ Delete(h)

\* faiss_VectorTransform_free
VectorTransform_free(t) ==
  /\ kind[t] = "VectorTransform" /\ CanFree(t)
  /\ Delete(t)

-----------------------------------------------------------------------------
(* Binary indexes (FaissIndexBinary).                                     *)

\* faiss_IndexBinaryFlat_new / faiss_IndexBinaryHash_new
IndexBinary_new(k) ==
  /\ HasFreeSlot
  /\ Construct(k, <<>>)

\* faiss_IndexBinaryIVF_new: the IVF stores the binary quantizer handle
\* (own_fields is false).
IndexBinaryIVF_new(q) ==
  /\ HasFreeSlot /\ IsBinary(q) /\ CanPass(q, "binivf_quantizer")
  /\ \/ Construct("IndexBinaryIVF", << <<q, "binivf_quantizer">> >>)
     \/ Fail(<< <<q, "binivf_quantizer">> >>)

\* faiss_IndexBinary_add / _search / _train / _reset / _ntotal /
\* _is_trained and faiss_IndexBinaryIVF_set_nprobe: the binary IVF
\* delegates to its quantizer.
IndexBinaryOperation(h) ==
  /\ h \in Usable /\ IsBinary(h)
  /\ uaf' = (uaf \/ \E o \in Reached(h) : life[o] = "freed")
  /\ \E rc \in {0, -1} : status' = rc
  /\ UNCHANGED <<kind, life, frees, kids, held>>

\* faiss_IndexBinary_free
IndexBinary_free(h) ==
  /\ IsBinary(h) /\ CanFree(h)
  /\ Delete(h)

-----------------------------------------------------------------------------
(* Device residency (the FAISS_GPU group).                                 *)

\* A call of the group that builds an object: with FAISS_GPU the engine
\* builds it or throws (-1); in the stub build every such entry point is
\* `return -1` and builds nothing.
GpuBuild(Success, cs) ==
  \/ Cuda /\ Success
  \/ Fail(cs)

\* faiss_StandardGpuResources_new
StandardGpuResources_new ==
  /\ HasFreeSlot
  /\ GpuBuild(Construct("StandardGpuResources", <<>>), <<>>)

\* faiss_StandardGpuResources_setTempMemory /
\* _setDefaultNullStreamAllDevices: res->... on the caller's resource.
StandardGpuResources_call(r) ==
  /\ r \in Usable /\ IsResources(r)
  /\ uaf' = (uaf \/ (Cuda /\ life[r] = "freed"))
  /\ \E rc \in IF Cuda THEN {0, -1} ELSE {-1} : status' = rc
  /\ UNCHANGED <<kind, life, frees, kids, held>>

\* faiss_StandardGpuResources_free: `delete res`.  GPU indexes only
\* reference their resource (spec.md sec. 4.8), so the caller frees it
\* after them.
StandardGpuResources_free(r) ==
  /\ IsResources(r) /\ CanFree(r)
  /\ Delete(r)

\* faiss_GpuIndexFlat_new: a device index on the caller's resource.
GpuIndexFlat_new(r) ==
  /\ HasFreeSlot /\ IsResources(r) /\ CanPass(r, "gpu_res")
  /\ GpuBuild(Construct("GpuIndex", << <<r, "gpu_res">> >>), << <<r, "gpu_res">> >>)

\* faiss_GpuIndexIVFFlat_new: as above; the quantizer argument is never
\* used, so the caller keeps it and the IVF builds its own.
GpuIndexIVFFlat_new(r) ==
  /\ HasFreeSlot /\ IsResources(r) /\ CanPass(r, "gpu_res")
  /\ GpuBuild(Construct("GpuIndex", << <<r, "gpu_res">> >>), << <<r, "gpu_res">> >>)

\* faiss_index_cpu_to_gpu: a device copy of everything below c, on r.
index_cpu_to_gpu(r, c) ==
  /\ HasFreeSlot /\ IsResources(r) /\ CanPass(r, "gpu_res")
  /\ c \in Usable /\ IsIndex(c)
  /\ GpuBuild(ConstructReading("GpuIndex", << <<r, "gpu_res">> >>, Reached(c)),
              << <<r, "gpu_res">> >>)

\* faiss_index_cpu_to_all_gpus: a device copy of c on resources the
\* engine makes itself.
index_cpu_to_all_gpus(c) ==
  /\ HasFreeSlot /\ c \in Usable /\ IsIndex(c)
  /\ GpuBuild(ConstructReading("GpuIndex", <<>>, Reached(c)), <<>>)

\* faiss_index_gpu_to_cpu: a host copy of g, a new index with no child
\* handle; d, metric and ntotal are read from it.
index_gpu_to_cpu(g) ==
  /\ HasFreeSlot /\ g \in Usable /\ kind[g] = "GpuIndex"
  /\ GpuBuild(\E k \in LeafKind : ConstructReading(k, <<>>, Reached(g)), <<>>)

\* faiss_get_num_gpus: writes the device count (0 in the stub build).
get_num_gpus ==
  /\ status' = 0
  /\ UNCHANGED <<kind, life, frees, kids, held, uaf>>

Next ==
  \/ \E k \in LeafKind : IndexFlat_new(k)
  \/ VectorTransform_new
  \/ IndexShards_new
  \/ \E k \in BinaryLeafKind : IndexBinary_new(k)
  \/ StandardGpuResources_new
  \/ get_num_gpus
  \/ \E a \in Slot :
       \/ IndexBinaryIVF_new(a)
       \/ IndexBinaryOperation(a)
       \/ IndexBinary_free(a)
       \/ StandardGpuResources_call(a)
       \/ StandardGpuResources_free(a)
       \/ GpuIndexFlat_new(a)
       \/ GpuIndexIVFFlat_new(a)
       \/ index_cpu_to_all_gpus(a)
       \/ index_gpu_to_cpu(a)
       \/ IndexIVFFlat_new(a)
       \/ IndexIDMap_new(a)
       \/ IndexOperation(a)
       \/ VectorTransformCall(a)
       \/ Index_free(a)
       \/ VectorTransform_free(a)
  \/ \E a, b \in Slot :
       \/ IndexRefine_new(a, b)
       \/ IndexPreTransform_new(a, b)
       \/ IndexShards_add_shard(a, b)
       \/ index_cpu_to_gpu(a, b)

Spec == Init /\ [][Next]_vars

-----------------------------------------------------------------------------
(* Properties.                                                             *)

TypeOK ==
  /\ kind \in [Slot -> Kind \cup {"none"}]
  /\ life \in [Slot -> {"unalloc", "live", "freed"}]
  /\ frees \in [Slot -> 0..MaxFrees]
  /\ kids \in [Slot -> Seq(Child)]
  /\ held \subseteq Slot
  /\ uaf \in BOOLEAN
  /\ status \in {0, -1}

\* Memory safety of the ownership rules of the composite constructors: no
\* object is ever deleted twice (by the caller's free and a destructor, or
\* by two owning wrappers), and no call ever reaches a deleted object
\* through a wrapper.
MemorySafe ==
  /\ \A s \in Slot : frees[s] <= 1
  /\ ~uaf

\* No leak: every live engine object is either held by the caller or is
\* deleted, through the engine's owning destructors, when something the
\* caller holds is freed.
NoLeak ==
  \A s \in Slot : life[s] = "live" => s \in Accounted

=============================================================================
