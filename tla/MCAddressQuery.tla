--------------------------- MODULE MCAddressQuery ---------------------------
(* AddressQuery with model values for TLC.                                  *)
EXTENDS AddressQuery, TLC

CONSTANTS h1, h2, q1, q2, m1

\* Helpers are interchangeable, and so are queries.
Symmetry == Permutations(Helpers) \cup Permutations(Queries)
=============================================================================
