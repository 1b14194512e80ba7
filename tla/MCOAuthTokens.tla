--------------------------- MODULE MCOAuthTokens ---------------------------
(* One connector and one committee member whose role may lose and regain    *)
(* the focus-only module that makes it a blanket grant.                     *)
EXTENDS OAuthTokens, TLC

CONSTANTS claude, u1, c1, t1, t2, t3, r1, r2

MCOneGrant == {{"read"}}

MCRefreshRequests == {{ReadOf("finance")}}

MCOneRefresh == {{}}

Treasurer == [modules |-> {"finance", "events"}, write_modules |-> {"finance"}]

FinanceOnly == [modules |-> {"finance"}, write_modules |-> {}]

MCTreasurer == {Treasurer}

MCFinanceOnly == {FinanceOnly}

Symmetry == Permutations({t1, t2, t3}) \cup Permutations({r1, r2})

============================================================================
