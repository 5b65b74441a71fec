---------------------------- MODULE MCAddressPath ----------------------------
(* AddressPath with two friends of the owner.                               *)
EXTENDS AddressPath, TLC

CONSTANTS f1, f2, lan, nat, site, a6, link6

MCTextLen == [ip \in {lan, nat, site, a6, link6} |-> IF ip \in {a6, link6} THEN 47 ELSE 21]

\* What the owner tells is what an invitation shown on the second network says, too.
MCTold == {At(link6, DefaultPort)}

\* A network with both families; one with a link-local address only, so that an invitation
\* shown there names an address that cannot be used elsewhere.
MCNetworks == {[v4 |-> lan, v6 |-> a6], [v4 |-> None, v6 |-> link6]}

\* The two friends are interchangeable.
Symmetry == Permutations({f1, f2})
=============================================================================
