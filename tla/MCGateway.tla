----------------------------- MODULE MCGateway ------------------------------
(* One bucket, a limit of two, three minutes of which the prune spares the  *)
(* last two; two API keys and no login through OAuth, a cap of two calls a  *)
(* key and three in all.                                                    *)
EXTENDS Gateway, TLC

CONSTANTS key, r1, r2, r3, i1, i2

Symmetry == Permutations({r1, r2, r3})

============================================================================
