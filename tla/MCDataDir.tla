----------------------------- MODULE MCDataDir ------------------------------
(* DataDir with model values, for TLC.                                      *)
EXTENDS DataDir, TLC

CONSTANTS c1, c2, t1, k1, k2, k3

\* Bound: the account changes once.  An import that was cut short can be made again.
OneChange == rekeyed /\ identityFile # None => identityFile' = identityFile

\* Bound: after that the file and the lists of the runs have two friends together.
FewFriends ==
  rekeyed => Cardinality(friendsFile \cup UNION {client[c].mem : c \in Clients}) <= 2

\* Runs of the program are interchangeable, and so are keys and short processes.
Symmetry == Permutations(Clients) \cup Permutations(Tools) \cup Permutations(Keys)
=============================================================================
