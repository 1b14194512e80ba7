------------------------------ MODULE MCIngest ------------------------------
(* A roster of two, the same with one member exchanged and the other listed *)
(* twice, one that has shrunk, an empty one, one without its student ids;   *)
(* two snapshots, and a workbook that does not parse.                       *)
EXTENDS Ingest, TLC

CONSTANTS s1, s2, s3, r1, r2

Membership(members, unnamed) ==
  [type |-> "membership", parses |-> TRUE, members |-> members,
   doubled |-> {}, unnamed |-> unnamed]

Snapshot == [type |-> "pnl", parses |-> TRUE, members |-> {}, doubled |-> {},
             unnamed |-> 0]

Unreadable == [Snapshot EXCEPT !.parses = FALSE]

Weeks == <<Membership({s1, s2}, 0),
           [Membership({s2, s3}, 0) EXCEPT !.doubled = {s2}], Membership({s1}, 0),
           Membership({}, 0), Snapshot, Snapshot, Unreadable>>

NoIds == <<Membership({s1, s2}, 0), Membership({}, 2)>>

Symmetry == Permutations({r1, r2})

============================================================================
