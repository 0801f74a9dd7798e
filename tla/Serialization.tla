--------------------------- MODULE Serialization ---------------------------
(***************************************************************************)
(* The serialization entry points of src/faiss_c_impl.cpp                 *)
(* (faiss_write_index, faiss_read_index, faiss_serialize_index,           *)
(* faiss_deserialize_index) together with the constructors whose class    *)
(* and metric they carry across a round trip.                              *)
(*                                                                         *)
(* An engine object is its class, its metric, ntotal, is_trained and    *)
(* whether write_index can write it.  A written index (file or buffer)    *)
(* holds the object as write_index saw it.  Reading builds a new object  *)
(* of the class read_index decodes and reports, through the               *)
(* out-parameters, the tag the facade's dynamic_cast probe chain          *)
(* recovers, d (one value, left out), metric and ntotal.                  *)
(***************************************************************************)
EXTENDS Naturals, Sequences, SequencesExt

CONSTANTS
  Slot,           \* addresses an engine object can be allocated at
  Media,          \* files and buffers an index can be written to
  NULL,           \* no object / nothing written
  Built,          \* the engine classes the caller constructs
  MetricArgs,     \* metric_type values the caller passes to constructors
  MaxN,           \* bound on ntotal
  Foreign         \* classes of indexes another program wrote to the media

ASSUME NULL \notin Slot \cup Media /\ MaxN \in Nat

-----------------------------------------------------------------------------
(* The engine's class hierarchy, for the classes the facade builds and    *)
(* the subclasses read_index can return.                                  *)

Parent ==
  [IndexFlat |-> "Index", IndexFlatL2 |-> "IndexFlat", IndexFlatIP |-> "IndexFlat",
   IndexFlat1D |-> "IndexFlatL2",
   IndexIVF |-> "Index", IndexIVFFlat |-> "IndexIVF", IndexIVFFlatDedup |-> "IndexIVFFlat",
   IndexIVFPQ |-> "IndexIVF", IndexIVFPQR |-> "IndexIVFPQ",
   IndexIVFScalarQuantizer |-> "IndexIVF",
   IndexHNSW |-> "Index", IndexHNSWFlat |-> "IndexHNSW",
   IndexPQ |-> "Index", IndexScalarQuantizer |-> "Index", IndexLSH |-> "Index",
   IndexIDMap |-> "Index", IndexIDMap2 |-> "IndexIDMap", IndexShards |-> "Index"]

Class == DOMAIN Parent

RECURSIVE IsA(_, _)
\* dynamic_cast<P*> of an object of class c succeeds.
IsA(c, p) == c = p \/ (c # "Index" /\ IsA(Parent[c], p))

\* Variant of Probes that tries dynamic_cast<IndexFlat*> first.
ProbesFlatFirst ==
  <<"IndexFlat", "IndexFlatL2", "IndexFlatIP", "IndexIVFFlat", "IndexIVFPQ",
    "IndexHNSWFlat", "IndexPQ", "IndexIDMap">>

\* The if / else-if chain of faiss_read_index and faiss_deserialize_index.
Probes ==
  <<"IndexFlatL2", "IndexFlatIP", "IndexIVFFlat", "IndexIVFPQ",
    "IndexHNSWFlat", "IndexPQ", "IndexIDMap">>

RECURSIVE ProbeFrom(_, _)
ProbeFrom(c, ps) ==
  IF ps = <<>> THEN "Unknown"
  ELSE IF IsA(c, Head(ps)) THEN Head(ps) ELSE ProbeFrom(c, Tail(ps))

\* The index_type string the facade writes for an object of class c.
ProbeTag(c) == ProbeFrom(c, Probes)

-----------------------------------------------------------------------------

\* faiss::MetricType of the facade's `metric_type == 0 ? IP : L2`.
METRIC_INNER_PRODUCT == 0
METRIC_L2 == 1
MetricOf(arg) == IF arg = 0 THEN METRIC_INNER_PRODUCT ELSE METRIC_L2

VARIABLES
  idx,      \* idx[s]: the object at s, or NULL
  store,    \* store[m]: the object written to file or buffer m, or NULL
  out       \* out-parameters of the last successful read / deserialize

vars == <<idx, store, out>>

Live == {s \in Slot : idx[s] # NULL}

Open == {s \in Slot : idx[s] = NULL}

\* `*p_index = new C(...)`: an empty object at a free address.
\* writable: write_index succeeds on the object and the children it writes.
New(cls, metric, trained, writable) ==
  /\ cls \in Built /\ Open # {}
  /\ idx' = [idx EXCEPT ![CHOOSE s \in Open : TRUE] =
               [cls |-> cls, metric |-> metric,
                ntotal |-> 0, trained |-> trained, writable |-> writable]]
  /\ UNCHANGED <<store, out>>

\* An index of class c another program wrote (L2, empty, trained).
ForeignObj ==
  {[cls |-> c, metric |-> METRIC_L2, ntotal |-> 0,
    trained |-> TRUE, writable |-> TRUE] : c \in Foreign}

Init ==
  /\ idx = [s \in Slot |-> NULL]
  /\ store \in [Media -> {NULL} \cup ForeignObj]
  /\ out = NULL

-----------------------------------------------------------------------------
(* Constructors.                                                           *)

\* faiss_IndexFlatL2_new
IndexFlatL2_new == New("IndexFlatL2", METRIC_L2, TRUE, TRUE)

\* faiss_IndexFlatIP_new
IndexFlatIP_new == New("IndexFlatIP", METRIC_INNER_PRODUCT, TRUE, TRUE)

\* faiss_IndexHNSWFlat_new
IndexHNSWFlat_new(m) == New("IndexHNSWFlat", MetricOf(m), TRUE, TRUE)

\* faiss_IndexPQ_new
IndexPQ_new(m) == New("IndexPQ", MetricOf(m), FALSE, TRUE)

\* faiss_IndexPQFastScan_new: an IndexPQ as well.
IndexPQFastScan_new(m) == New("IndexPQ", MetricOf(m), FALSE, TRUE)

\* faiss_IndexScalarQuantizer_new: the quantizer type decides whether the
\* index needs training.
IndexScalarQuantizer_new(m) ==
  \E t \in BOOLEAN : New("IndexScalarQuantizer", MetricOf(m), t, TRUE)

\* faiss_IndexLSH_new: the L2 default; trained unless train_thresholds.
IndexLSH_new == \E t \in BOOLEAN : New("IndexLSH", METRIC_L2, t, TRUE)

\* faiss_IndexShards_new: (void)metric_type; IndexShards(d) is L2.
IndexShards_new(m) == New("IndexShards", METRIC_L2, TRUE, FALSE)

\* An inverted-file index over the live quantizer q: untrained, and
\* writable when q is.
IVF(q, cls, metric) ==
  /\ q \in Live
  /\ New(cls, metric, FALSE, idx[q].writable)

\* faiss_IndexIVFFlat_new
IndexIVFFlat_new(q, m) == IVF(q, "IndexIVFFlat", MetricOf(m))

\* faiss_IndexIVFPQ_new: no metric_type, so the engine's L2 default.
IndexIVFPQ_new(q) == IVF(q, "IndexIVFPQ", METRIC_L2)

\* faiss_IndexIVFScalarQuantizer_new
IndexIVFScalarQuantizer_new(q, m) == IVF(q, "IndexIVFScalarQuantizer", MetricOf(m))

\* faiss_IndexIVFPQFastScan_new: an IndexIVFPQ with the caller's metric.
IndexIVFPQFastScan_new(q, m) == IVF(q, "IndexIVFPQ", MetricOf(m))

\* faiss_IndexIVFFlatOnDisk_new: (void)filename; an in-memory IndexIVFFlat.
IndexIVFFlatOnDisk_new(q, m) == IVF(q, "IndexIVFFlat", MetricOf(m))

\* faiss_IndexIVFPQOnDisk_new: (void)filename; an in-memory IndexIVFPQ.
IndexIVFPQOnDisk_new(q, m) == IVF(q, "IndexIVFPQ", MetricOf(m))

\* faiss_IndexIDMap_new: an IDMap takes its base's metric and is_trained;
\* the engine refuses a non-empty base.
IndexIDMap_new(b) ==
  /\ b \in Live /\ idx[b].ntotal = 0
  /\ New("IndexIDMap", idx[b].metric, idx[b].trained,
      idx[b].writable)

-----------------------------------------------------------------------------
(* Changes of the serialized fields: train and add (see IndexFacade).     *)

\* faiss_Index_train on a base index.
Index_train(h) ==
  /\ h \in Live /\ idx[h].cls # "IndexIDMap"
  /\ idx' = [idx EXCEPT ![h].trained = TRUE]
  /\ UNCHANGED <<store, out>>

\* faiss_Index_add on a trained index other than an IDMap.
Index_add(h) ==
  /\ h \in Live /\ idx[h].cls # "IndexIDMap"
  /\ idx[h].trained /\ idx[h].ntotal < MaxN
  /\ idx' = [idx EXCEPT ![h].ntotal = @ + 1]
  /\ UNCHANGED <<store, out>>

-----------------------------------------------------------------------------
(* Serialization.                                                          *)

\* faiss_write_index: the engine writes the object, or throws for a class
\* it cannot serialize (-1, file untouched).
write_index(h, m) ==
  /\ h \in Live
  /\ store' = IF idx[h].writable THEN [store EXCEPT ![m] = idx[h]] ELSE store
  /\ UNCHANGED <<idx, out>>

\* faiss_serialize_index: write to a VectorIOWriter, then *size, then
\* *data = malloc(*size) and a memcpy into it; the caller's buffer holds
\* what write_index would have written to a file.
serialize_index(h, m) ==
  /\ h \in Live
  /\ store' = IF idx[h].writable THEN [store EXCEPT ![m] = idx[h]] ELSE store
  /\ UNCHANGED <<idx, out>>

\* faiss_read_index / faiss_deserialize_index: read_index (which throws on
\* a missing file or bad data), *p_index, the probe chain into index_type,
\* then d, metric and ntotal.
Read(m) ==
  LET o == store[m] IN
  /\ o # NULL /\ Open # {}
  /\ idx' = [idx EXCEPT ![CHOOSE s \in Open : TRUE] = o]
  /\ out' = [index_type |-> ProbeTag(o.cls), metric |-> o.metric,
             ntotal |-> o.ntotal, trained |-> o.trained,
             written |-> o]
  /\ UNCHANGED store

\* faiss_read_index
read_index(m) == Read(m)

\* faiss_deserialize_index: the buffer is copied into a VectorIOReader.
deserialize_index(m) == Read(m)

Next ==
  \/ IndexFlatL2_new \/ IndexFlatIP_new \/ IndexLSH_new
  \/ \E a \in MetricArgs :
       \/ IndexHNSWFlat_new(a) \/ IndexPQ_new(a) \/ IndexPQFastScan_new(a)
       \/ IndexScalarQuantizer_new(a) \/ IndexShards_new(a)
       \/ \E q \in Slot :
            \/ IndexIVFFlat_new(q, a) \/ IndexIVFScalarQuantizer_new(q, a)
            \/ IndexIVFPQFastScan_new(q, a) \/ IndexIVFFlatOnDisk_new(q, a)
            \/ IndexIVFPQOnDisk_new(q, a)
  \/ \E s \in Slot :
       \/ IndexIVFPQ_new(s) \/ IndexIDMap_new(s) \/ Index_train(s) \/ Index_add(s)
       \/ \E m \in Media : write_index(s, m) \/ serialize_index(s, m)
  \/ \E m \in Media : read_index(m) \/ deserialize_index(m)

Spec == Init /\ [][Next]_vars

-----------------------------------------------------------------------------
(* Properties.                                                             *)

\* spec.md sec. 9 asks whether the probe chain is ambiguous when one
\* class derives from another.  Whatever class read_index returns, ours or
\* a subclass from another program's file, the index_type reported is the
\* most derived probed class the object is an instance of, or "Unknown"
\* when it is none.
ProbeIsMostSpecific ==
  out # NULL =>
    LET c    == out.written.cls
        hits == {p \in ToSet(Probes) : IsA(c, p)}
    IN  IF hits = {} THEN out.index_type = "Unknown"
        ELSE out.index_type \in hits /\ \A p \in hits : IsA(out.index_type, p)

\* spec.md sec. 8: a read after a write of an index the facade built
\* reports the variant tag of the index that was written.
RoundTripTag ==
  (out # NULL /\ out.written.cls \in Built) => out.index_type = out.written.cls

=============================================================================
