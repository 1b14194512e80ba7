---------------------------- MODULE MCWorkspace -----------------------------
(* Small values for every part of the workspace.                            *)
EXTENDS Workspace, TLC, ApiKeyScopes

(* A mail of DUSA that fits one event clearly, one of a stranger that does  *)
(* too, one of DUSA that fits two events alike, one that is spam, and one   *)
(* that the holder of a key writes in the name of DUSA.                     *)
MCMarks == "spam" :> {"keyword"} @@ [m \in {"clear", "stranger", "vague", "supplied"} |-> {}]
MCScore ==
  "vague" :> ("e1" :> 90 @@ "e2" :> 86)
  @@ [m \in {"clear", "stranger", "spam", "supplied"} |-> "e1" :> 95 @@ "e2" :> 60]

MCTeams == {{"p1"}, {"p2"}}

MCCredentials ==
  {{}, {Coarse("read")}, {Coarse("write")}, {Coarse("trigger")},
   {ReadOf("finance")}, {WriteOf("finance")}, {Coarse("read"), ReadOf("sponsors")},
   {WriteOf("sponsors")}, {Coarse("write"), WriteOf("documents"), ReadOf("members")},
   {ReadOf("people")}, {WriteOf("people"), Coarse("trigger")}}

(* One link, and two in the other order.                                    *)
MCOrders == {"l1" :> 1, "l1" :> 2 @@ "l2" :> 1}

=============================================================================
