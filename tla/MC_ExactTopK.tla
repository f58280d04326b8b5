----------------------------- MODULE MC_ExactTopK -----------------------------
(* The catalogs of the run of ExactTopK: the cosines, times 25, of vectors   *)
(* of length five.                                                           *)
EXTENDS ExactTopK

Vectors == {<<5, 0>>, <<4, 3>>, <<0, 5>>}

Dot(v, w) == v[1] * w[1] + v[2] * w[2]

\* The first row's vector is the one in the middle: the others are above it, below
\* it, or tie with it.
Cosines ==
    {[r \in Rows |-> [c \in Rows |-> Dot(v[r], v[c])]] :
         v \in {w \in [Rows -> Vectors] : w[0] = <<4, 3>>}}
=============================================================================
