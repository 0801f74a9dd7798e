--------------------------- MODULE MCSerialization ---------------------------
EXTENDS Serialization

\* Subclasses read_index returns for files written by other programs.
MCForeign == {"IndexFlat1D", "IndexIDMap2", "IndexIVFFlatDedup", "IndexIVFPQR"}

\* Every class a facade constructor builds.
MCAllBuilt ==
  {"IndexFlatL2", "IndexFlatIP", "IndexHNSWFlat", "IndexPQ", "IndexIVFFlat",
   "IndexIVFPQ", "IndexIVFScalarQuantizer", "IndexScalarQuantizer",
   "IndexLSH", "IndexIDMap", "IndexShards"}

\* The classes the probe chain of faiss_read_index names, and IndexShards.
MCProbedBuilt ==
  {"IndexFlatL2", "IndexFlatIP", "IndexHNSWFlat", "IndexPQ", "IndexIVFFlat",
   "IndexIVFPQ", "IndexIDMap", "IndexShards"}

\* metric_type values faiss::MetricType gives a meaning the facade keeps.
MCValidMetrics == {0, 1}

=============================================================================
