----------------------------- MODULE MCApiKeys -----------------------------
(* A hub service key with blanket write, one committee member, two more     *)
(* keys, two requests in flight.                                            *)
EXTENDS ApiKeys, TLC

CONSTANTS hub, k1, k2, r1, r2, u1

MCLegacyScopes == {Coarse("write"), ReadOf("finance")}

MCRequestedScopes == {{Coarse("write")}, {WriteOf("games")}, {ReadOf("games"), ReadOf("finance")}}

Symmetry == Permutations({k1, k2}) \cup Permutations({r1, r2})

============================================================================
