---------------------------- MODULE RangeSearch ----------------------------
(***************************************************************************)
(* Lifetime of the faiss::RangeSearchResult objects that                  *)
(* faiss_Index_range_search hands to the caller, src/faiss_c_impl.cpp     *)
(* lines 241-265.                                                          *)
(*                                                                         *)
(* The facade allocates the result with `new`, lets the engine fill it,   *)
(* and only then writes it to *p_result.  The caller reads its arrays     *)
(* with faiss_RangeSearchResult_get and deletes it with                   *)
(* faiss_RangeSearchResult_free.  A result is an address with a life      *)
(* state; the index and the queries are left out.                          *)
(***************************************************************************)
EXTENDS Integers

CONSTANTS
  Result,    \* addresses a RangeSearchResult can be allocated at
  MayThrow   \* the caller's index can throw in range_search (untrained
             \* IVF, HNSW without range search, bad radius, ...)

ASSUME MayThrow \in BOOLEAN

VARIABLES
  life,   \* life[r]: "unalloc", "live" or "freed"
  held,   \* results whose address the caller received in *p_result
  rc      \* return code of the last call

vars == <<life, held, rc>>

\* Addresses `new` may return: never allocated, or deleted before.
Free == {r \in Result : life[r] # "live"}

Init ==
  /\ life = [r \in Result |-> "unalloc"]
  /\ held = {}
  /\ rc = 0

\* faiss_Index_range_search: `new RangeSearchResult(n)` at some free
\* address, then index->range_search; the address reaches *p_result only
\* if the engine returns.  An engine exception goes to CATCH_AND_HANDLE,
\* which returns -1 and drops the only pointer to the result.
Index_range_search ==
  \E r \in Free :
    /\ life' = [life EXCEPT ![r] = "live"]
    /\ \/ /\ held' = held \cup {r}
          /\ rc' = 0
       \/ /\ MayThrow
          /\ rc' = -1
          /\ UNCHANGED held

\* faiss_RangeSearchResult_get: static_cast and read of lims, labels and
\* distances; nothing changes.
RangeSearchResult_get(r) ==
  /\ r \in held
  /\ rc' = 0
  /\ UNCHANGED <<life, held>>

\* faiss_RangeSearchResult_free: delete of a result the caller holds.
RangeSearchResult_free(r) ==
  /\ r \in held
  /\ life' = [life EXCEPT ![r] = "freed"]
  /\ held' = held \ {r}
  /\ UNCHANGED rc

Next ==
  \/ Index_range_search
  \/ \E r \in Result : RangeSearchResult_get(r) \/ RangeSearchResult_free(r)

Spec == Init /\ [][Next]_vars

\* spec.md sec. 4.3: the caller releases every RangeSearchResult with the
\* dedicated free call.  That is possible only if every live result is one
\* the caller received: none is left allocated by a failed range_search.
NoLeakedResult == \A r \in Result : life[r] = "live" => r \in held

=============================================================================
