------------------------------- MODULE Kmeans -------------------------------
(***************************************************************************)
(* The clustering facade of src/faiss_c_impl.cpp, faiss_Kmeans_*: a       *)
(* faiss::Clustering behind an opaque handle, its parameters, training    *)
(* and the two calls that read the centroids.                             *)
(*                                                                         *)
(* A centroid buffer is abstracted to the inputs that determine it: the   *)
(* seed, niter, point count and training set of the train call that      *)
(* produced it, and how k-means started: from a seeded sample, from the   *)
(* centroids already present, or (exactly k points) a copy of the data.  *)
(* An empty buffer is Empty.  get_centroids and assign copy k*d floats out *)
(* of the buffer whatever its size; reading an empty one is recorded in   *)
(* oob.                                                                    *)
(***************************************************************************)
EXTENDS Integers

CONSTANTS
  Handle,      \* addresses a Clustering can be allocated at
  K,           \* k of every Clustering the caller builds
  Data,        \* training sets the caller passes (model values)
  NPoints,     \* numbers of points the caller passes to train
  Seeds,       \* values the caller passes to set_seed
  Niters,      \* values the caller passes to set_niter
  MaxTrain,    \* bound on train calls per handle
  NULL,        \* no Clustering allocated at a handle
  IntBits,     \* width of the engine's C int (32 in the build)
  TrainFirst   \* caller rule: read centroids only after a train returned 0

ASSUME K \in Nat \ {0} /\ NPoints \subseteq Nat /\ MaxTrain \in Nat
ASSUME IntBits \in Nat \ {0} /\ Seeds \subseteq Int

\* Defaults of faiss::ClusteringParameters.
DefaultNiter == 25
DefaultSeed == 1234

\* The int64_t -> int conversion of the assignment kmeans->seed = seed: the
\* value modulo 2^IntBits, read back as a two's-complement int.
ToInt(v) ==
  LET m == 2^IntBits
  IN  ((v + m \div 2) % m) - m \div 2

ASSUME ToInt(DefaultSeed) = DefaultSeed

\* The seeds a Clustering can hold.
EngineSeeds == {ToInt(v) : v \in Seeds} \cup {DefaultSeed}

\* The empty centroid buffer of a Clustering never trained.
Empty == [seed |-> 0, niter |-> 0, npts |-> 0, data |-> NULL, init |-> "none"]

\* A buffer trained from a seeded sample ("seeded"), from the previous
\* buffer ("prior"), or copied from exactly k points ("copy", where seed
\* and niter play no part and are 0).
Centroids == {Empty} \cup
  [seed : EngineSeeds \cup {0}, niter : Niters \cup {DefaultNiter, 0},
   npts : NPoints, data : Data, init : {"seeded", "prior", "copy"}]

VARIABLES
  km,       \* km[h]: the Clustering at h, or NULL
  trained,  \* trained[h]: the caller saw faiss_Kmeans_train(h) return 0
  trains,   \* trains[h]: train calls on h so far
  oob,      \* some call read k*d floats from an empty centroid buffer
  out       \* out[h]: centroid buffer get_centroids last copied out of h

vars == <<km, trained, trains, oob, out>>

Live == {h \in Handle : km[h] # NULL}

\* The caller may read the centroids of h.
MayRead(h) == TrainFirst => trained[h]

-----------------------------------------------------------------------------

Init ==
  /\ km = [h \in Handle |-> NULL]
  /\ trained = [h \in Handle |-> FALSE]
  /\ trains = [h \in Handle |-> 0]
  /\ oob = FALSE
  /\ out = [h \in Handle |-> Empty]

\* faiss_Kmeans_new: new faiss::Clustering(d, k), default parameters and an
\* empty centroid buffer.
Kmeans_new(h) ==
  /\ km[h] = NULL
  /\ km' = [km EXCEPT ![h] = [niter |-> DefaultNiter, seed |-> DefaultSeed,
                              verbose |-> FALSE, centroids |-> Empty]]
  /\ UNCHANGED <<trained, trains, oob, out>>

\* faiss_Kmeans_set_niter
Kmeans_set_niter(h, v) ==
  /\ h \in Live
  /\ km' = [km EXCEPT ![h].niter = v]
  /\ UNCHANGED <<trained, trains, oob, out>>

\* faiss_Kmeans_set_verbose: verbose = (v != 0).
Kmeans_set_verbose(h, v) ==
  /\ h \in Live
  /\ km' = [km EXCEPT ![h].verbose = (v # 0)]
  /\ UNCHANGED <<trained, trains, oob, out>>

\* faiss_Kmeans_set_seed: the int64_t argument is stored into the int seed.
Kmeans_set_seed(h, v) ==
  /\ h \in Live
  /\ km' = [km EXCEPT ![h].seed = ToInt(v)]
  /\ UNCHANGED <<trained, trains, oob, out>>

\* Variant of TrainResult that clears the buffer before it checks n.
TrainResultClearsFirst(c, n, x) ==
  CASE n < K -> Empty
    [] n = K -> [seed |-> 0, niter |-> 0, npts |-> n, data |-> x, init |-> "copy"]
    [] OTHER -> [seed |-> c.seed, niter |-> c.niter, npts |-> n, data |-> x,
                 init |-> IF c.centroids = Empty THEN "seeded" ELSE "prior"]

\* The centroids Clustering::train leaves from n points of x: with fewer
\* points than k it throws before touching the buffer; with exactly k it
\* copies the points, whatever the buffer held; otherwise it runs niter
\* iterations from the seeded sample, or from the centroids already in
\* the buffer.
TrainResult(c, n, x) ==
  CASE n < K -> c.centroids
    [] n = K -> [seed |-> 0, niter |-> 0, npts |-> n, data |-> x, init |-> "copy"]
    [] OTHER -> [seed |-> c.seed, niter |-> c.niter, npts |-> n, data |-> x,
                 init |-> IF c.centroids = Empty THEN "seeded" ELSE "prior"]

\* faiss_Kmeans_train: a throwaway IndexFlatL2(d) as the assignment index,
\* then kmeans->train(n, x, index); the exception of n < k becomes -1.
Kmeans_train(h, n, x) ==
  /\ h \in Live /\ trains[h] < MaxTrain
  /\ km' = [km EXCEPT ![h].centroids = TrainResult(km[h], n, x)]
  /\ trained' = [trained EXCEPT ![h] = @ \/ n >= K]
  /\ trains' = [trains EXCEPT ![h] = @ + 1]
  /\ UNCHANGED <<oob, out>>

\* faiss_Kmeans_assign: index.add(k, centroids.data()) reads k*d floats,
\* then a 1-NN search of the n queries.
Kmeans_assign(h) ==
  /\ h \in Live /\ MayRead(h)
  /\ oob' = (oob \/ km[h].centroids = Empty)
  /\ UNCHANGED <<km, trained, trains, out>>

\* faiss_Kmeans_get_centroids: memcpy of k*d floats from centroids.data().
Kmeans_get_centroids(h) ==
  /\ h \in Live /\ MayRead(h)
  /\ oob' = (oob \/ km[h].centroids = Empty)
  /\ out' = [out EXCEPT ![h] = km[h].centroids]
  /\ UNCHANGED <<km, trained, trains>>

\* faiss_Kmeans_free: delete; the address may be handed out again.
Kmeans_free(h) ==
  /\ h \in Live
  /\ km' = [km EXCEPT ![h] = NULL]
  /\ trained' = [trained EXCEPT ![h] = FALSE]
  /\ trains' = [trains EXCEPT ![h] = 0]
  /\ out' = [out EXCEPT ![h] = Empty]
  /\ UNCHANGED oob

Next ==
  \E h \in Handle :
    \/ Kmeans_new(h)
    \/ \E v \in Niters : Kmeans_set_niter(h, v)
    \/ \E v \in {0, 1} : Kmeans_set_verbose(h, v)
    \/ \E v \in Seeds : Kmeans_set_seed(h, v)
    \/ \E n \in NPoints, x \in Data : Kmeans_train(h, n, x)
    \/ Kmeans_assign(h)
    \/ Kmeans_get_centroids(h)
    \/ Kmeans_free(h)

Spec == Init /\ [][Next]_vars

-----------------------------------------------------------------------------
(* Properties.                                                             *)

TypeOK ==
  /\ \A h \in Handle :
       km[h] = NULL \/
       km[h] \in [niter : Niters \cup {DefaultNiter}, seed : EngineSeeds,
                  verbose : BOOLEAN, centroids : Centroids]
  /\ trained \in [Handle -> BOOLEAN]
  /\ trains \in [Handle -> 0..MaxTrain]
  /\ oob \in BOOLEAN
  /\ out \in [Handle -> Centroids]

\* get_centroids and assign read k*d floats from the centroid buffer with
\* no size check: no such read ever meets an empty buffer, for a caller
\* that reads a handle only after its train returned 0.
CentroidReadsInBounds == ~oob

\* spec.md sec. 4.7 and 8: training is deterministic for a fixed seed:
\* any two centroid buffers copied out by get_centroids that were trained
\* with the same seed, niter and training points are identical.
TrainDeterministic ==
  \A a, b \in Handle :
    LET ca == out[a]
        cb == out[b]
    IN  (ca # Empty /\ cb # Empty /\ ca.seed = cb.seed /\ ca.niter = cb.niter
           /\ ca.npts = cb.npts /\ ca.data = cb.data) => ca = cb

=============================================================================
