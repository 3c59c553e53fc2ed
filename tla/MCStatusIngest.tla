--------------------------- MODULE MCStatusIngest ---------------------------
(***************************************************************************)
(* Instances of StatusIngest for TLC.  One tick stands for 150 seconds:    *)
(* a skew of 300 s is 2, the nonces' 600 s are 4, offline (300 s) is 2 and *)
(* live (90 s) is rounded to 1.                                            *)
(***************************************************************************)
EXTENDS StatusIngest, TLC

CONSTANTS s1, s2, s3, n1, n2, n3, h1, h2, h3, g1

Interchangeable == Permutations(Nonce) \cup Permutations(Handler)

\* Right, and as far ahead as a request may be.
Ahead == {0, 2}
\* The same, and further from the request than an observation may be.
Sampled == {0, 2, 3}
Exact == {0}
=============================================================================
