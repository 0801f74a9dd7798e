------------------------- MODULE MCIndexLifecycle --------------------------
(***************************************************************************)
(* Model-checking instances of IndexLifecycle: four heap slots, one leaf *)
(* class of each handle type.  The engine owns no child: the facade never *)
(* sets own_fields (IndexPreTransform, IVF, IDMap, Refine) or own_indices  *)
(* (IndexShards), and the engine's constructors leave both false.  What  *)
(* the caller believes it gave away is either nothing or what the         *)
(* documentation says.                                                     *)
(***************************************************************************)
EXTENDS IndexLifecycle

\* The child roles an engine destructor deletes: none, since the facade
\* never sets own_fields or own_indices.
MCNoneOwned == {}

MCLeafKind == {"IndexFlatL2"}

MCBinaryLeafKind == {"IndexBinaryFlat"}

\* Roles in which spec.md (sec. 3, 4.5) and the comment at
\* src/faiss_c_impl.cpp:704 say ownership passes to the wrapper.
MCDocumentedOwned == {"pt_transform", "shard"}

=============================================================================
