--------------------------- MODULE MCIndexFacade ---------------------------
(***************************************************************************)
(* Model-checking instances of IndexFacade.  Three heap slots hold a flat *)
(* quantizer, an IVF over it and an IDMap over the IVF (or a flat base);  *)
(* IVFs have one list; two external ids let a selector name a present    *)
(* and an absent id.                                                       *)
(***************************************************************************)
EXTENDS IndexFacade

\* Classes for the wrapper runs: a quantizer, an IVF, an IDMap.
MCWrapperBuilt == {"IndexFlatL2", "IndexIVFFlat", "IndexIDMap"}

\* Classes for the dispatch run: every class a dispatching function takes.
MCAllBuilt == {"IndexFlatL2", "IndexFlatIP", "IndexHNSWFlat", "IndexIVFFlat",
               "IndexIDMap", "IndexRefine", "IndexShards",
               "IndexBinaryFlat", "IndexBinaryIVF"}

\* Classes for spec.md sec. 8 scenario 5: a Shards container over flat
\* shards.
MCShardsBuilt == {"IndexFlatL2", "IndexShards"}

\* The caller builds a Refine over leaf indexes.
MCRefineOver == {"IndexFlatL2", "IndexFlatIP", "IndexHNSWFlat", "IndexIVFFlat"}

MCKFactorVal == {2}

\* Heap slots are interchangeable: a constructor takes whichever is free.
MCSlotSymmetry == Permutations(Slot)

\* States that differ only in the record of the last call have the same
\* successors: no guard of IndexFacade reads `last`.  The wrapper runs,
\* whose properties do not read it either, identify them.
MCStateView == <<idx, crashed>>

MCId == {1, 2}
\* int64_t and size_t as 4 bits; -1 is stored as the size_t 15.
MCWordBits == 4
MCNprobeVal == {-1}
MCEfVal == {64}

=============================================================================
