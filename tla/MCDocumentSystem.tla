-------------------------- MODULE MCDocumentSystem --------------------------
(* DocumentSystem on small instances: model values and symmetry.           *)
EXTENDS DocumentSystem, TLC

CONSTANTS k, k2, c1, c2, w1, w2, u1, u2

\* Reviewers, contents, keys and workers are interchangeable; no property or
\* action tells them apart.
Symmetry ==
    Permutations(Contents) \cup Permutations(Keys)
        \cup Permutations(Workers) \cup Permutations(Reviewers)
=============================================================================
