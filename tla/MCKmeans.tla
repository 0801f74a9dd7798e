------------------------------ MODULE MCKmeans ------------------------------
EXTENDS Kmeans

\* Two training sets, k = 2, and batches of 1 (fewer than k), 2 (exactly k) or 3
\* points.
MCNPoints == {1, 2, 3}
\* C int as 12 bits: 7 and 7 + 2^12 are different int64_t seeds that the
\* engine stores as the same int.
MCIntBits == 12
MCSeeds == {7, 7 + 2^MCIntBits}
MCNiters == {10}

=============================================================================
