-------------------------- MODULE GameLedgerProofs --------------------------
(* Proofs about GameLedger: for any engines, any number of submits in       *)
(* flight and of days, and any roster changes.                              *)
EXTENDS GameLedger, FiniteLemmas, TLAPS

single == game.single_attempt_per_round

Earned(d) == SumFunctionOnSet(Points, Plays(d))

Guests(d) == {i \in Plays(d) : ~ attempt[i].is_member_play}

(* A row is never older than its round, and only a board of Codle that is   *)
(* still open has guesses left.                                             *)
AttemptOK(i) ==
  /\ attempt[i].played >= attempt[i].round
  /\ ~ attempt[i].finished =>
       single /\ attempt[i].points = 0 /\ attempt[i].guesses < game.max_guesses

(* Codle: one board for a round, with every guess of it.                    *)
BoardsOK ==
  /\ \A i, j \in DOMAIN attempt : attempt[i].round = attempt[j].round => i = j
  /\ \A i \in DOMAIN attempt : attempt[i].guesses = accepted[attempt[i].round]
  /\ \A d \in Day : Plays(d) = {} => accepted[d] = 0

Working == {"play", "award", "write"}
Deciding == {"award", "write"}

(* What a submit holds between its statements: from "play" on the lock of   *)
(* its day, and with it the rows of that round as it has read them; before  *)
(* its write, points that still fit into the day.                           *)
SubmitOK(r) ==
  LET l == req[r] IN
  /\ l.day <= today
  /\ l.phase # "idle" => l.submission \in Submission
  /\ l.phase \notin Deciding => l.row = 0 /\ l.guesses = 0 /\ ~ l.finished
  /\ l.phase # "write" => l.points = 0
  /\ l.phase \in Working => holder[l.day] = r
  /\ l.phase \in Deciding /\ single =>
       /\ l.row = 0 => Plays(l.day) = {} /\ l.guesses = 1
       /\ l.row # 0 => l.row \in Plays(l.day) /\ ~ attempt[l.row].finished
                       /\ l.guesses = attempt[l.row].guesses + 1
       /\ l.guesses <= game.max_guesses
       /\ ~ l.finished => l.guesses < game.max_guesses /\ l.points = 0 /\ l.phase = "write"
  /\ l.phase \in Deciding /\ ~ single =>
       /\ l.row = 0 /\ l.finished
       /\ ~ l.is_member => Cardinality(Plays(l.day)) < game.nonmember_round_play_cap
  /\ l.phase = "write" => l.points + Earned(l.day) <= game.points_per_day_cap

IInv ==
  /\ TypeOK
  /\ \A i \in DOMAIN attempt : AttemptOK(i)
  /\ single => BoardsOK
  /\ \A d \in Day : Earned(d) <= game.points_per_day_cap
  /\ \A d \in Day : Cardinality(Guests(d)) <= game.nonmember_round_play_cap
  /\ \A r \in Request : SubmitOK(r)

-----------------------------------------------------------------------------
LEMMA GameFields ==
  ASSUME TypeOK
  PROVE  /\ single \in BOOLEAN /\ game.points_per_day_cap \in Nat
         /\ game.nonmember_round_play_cap \in Nat \ {0} /\ game.max_guesses \in Nat \ {0}
BY EngineAssumption DEF TypeOK, single

LEMMA LocalFields ==
  ASSUME NEW l \in Local
  PROVE  /\ l.phase \in Phase /\ l.day \in Day /\ l.is_member \in BOOLEAN /\ l.row \in Nat
         /\ l.guesses \in Nat /\ l.finished \in BOOLEAN /\ l.points \in Nat
         /\ l.submission \in Submission \cup {Nil}
BY DEF Local

LEMMA Rows ==
  ASSUME TypeOK
  PROVE  /\ DOMAIN attempt = 1 .. Len(attempt) /\ Len(attempt) \in Nat
         /\ \A i \in DOMAIN attempt :
              /\ attempt[i] \in Attempt /\ Points[i] = attempt[i].points
              /\ attempt[i].round \in Day /\ attempt[i].played \in Day
              /\ attempt[i].guesses \in Nat /\ attempt[i].points \in Nat
              /\ attempt[i].finished \in BOOLEAN /\ attempt[i].is_member_play \in BOOLEAN
         /\ \A S \in SUBSET DOMAIN attempt : IsFiniteSet(S)
         /\ \A d : Plays(d) \subseteq DOMAIN attempt /\ Guests(d) \subseteq Plays(d)
<1>1. attempt \in Seq(Attempt)
  BY DEF TypeOK
<1>2. DOMAIN attempt = 1 .. Len(attempt) /\ Len(attempt) \in Nat
  BY <1>1
<1>3. \A i \in DOMAIN attempt : attempt[i] \in Attempt
  BY <1>1
<1>4. IsFiniteSet(DOMAIN attempt)
  BY <1>2, FS_Interval
<1>5. \A S \in SUBSET DOMAIN attempt : IsFiniteSet(S)
  BY <1>4, FS_Subset
<1> QED  BY <1>2, <1>3, <1>5 DEF Attempt, Points, Plays, Guests

LEMMA EarnedIsNat == ASSUME TypeOK, NEW d PROVE Earned(d) \in Nat
BY Rows, SumIsNat DEF Earned

LEMMA IdleFields ==
  /\ Idle.phase = "idle" /\ Idle.day = 0 /\ Idle.submission = Nil /\ ~ Idle.is_member
  /\ Idle.row = 0 /\ Idle.guesses = 0 /\ ~ Idle.finished /\ Idle.points = 0
BY DEF Idle

LEMMA IdleIsLocal == Idle \in Local
BY BoundAssumption DEF Idle, Local, Phase, Day

(* What is read of the rows does not change while they do not.              *)
LEMMA SameRows ==
  ASSUME game' = game, attempt' = attempt
  PROVE  /\ Points' = Points /\ single' = single
         /\ \A d : Plays(d)' = Plays(d) /\ Earned(d)' = Earned(d) /\ Guests(d)' = Guests(d)
<1>1. /\ Points' = Points /\ single' = single /\ \A d : Plays(d)' = Plays(d)
  BY DEF Points, single, Plays
<1> QED  BY <1>1 DEF Earned, Guests

(* A submit that ends, or has not begun, owes nothing.                      *)
LEMMA IdleOK == ASSUME TypeOK, NEW r \in Request, req[r] = Idle PROVE SubmitOK(r)
BY IdleFields, BoundAssumption DEF SubmitOK, TypeOK, Day, Working, Deciding

(* A step that leaves the rows alone, and takes no lock from anybody, keeps *)
(* the invariant if its own submit is in order.                             *)
LEMMA Kept ==
  ASSUME IInv, TypeOK', game' = game, attempt' = attempt, accepted' = accepted,
         today <= today',
         \A q \in Request :
           \/ /\ req'[q] = req[q]
              /\ req[q].phase \in Working => holder'[req[q].day] = holder[req[q].day]
           \/ SubmitOK(q)'
  PROVE  IInv'
<1>1. /\ Points' = Points /\ single' = single /\ \A d : Plays(d)' = Plays(d)
  BY SameRows
<1>2. \A d : Earned(d)' = Earned(d) /\ Guests(d)' = Guests(d)
  BY SameRows
<1>3. \A i \in DOMAIN attempt : AttemptOK(i)'
  BY <1>1 DEF IInv, AttemptOK
<1>4. (single => BoardsOK)'
  BY <1>1 DEF IInv, BoardsOK
<1>5. ASSUME NEW q \in Request, req'[q] = req[q],
             req[q].phase \in Working => holder'[req[q].day] = holder[req[q].day]
      PROVE  SubmitOK(q)'
  <2>1. SubmitOK(q) /\ req[q] \in Local
    BY DEF IInv, TypeOK
  <2>2. req[q].day <= today'
    BY <2>1, LocalFields DEF SubmitOK, TypeOK, IInv, Day
  <2> QED  BY <1>1, <1>2, <1>5, <2>1, <2>2 DEF SubmitOK
<1> QED  BY <1>1, <1>2, <1>3, <1>4, <1>5 DEF IInv

LEMMA Ends ==
  ASSUME IInv, NEW r \in Request, End(r), UNCHANGED <<game, today, attempt, accepted>>,
         member' \in BOOLEAN, player' \in BOOLEAN, round' \subseteq Day, arrived' \in Nat
  PROVE  IInv'
<1>1. /\ req' \in [Request -> Local] /\ req'[r] = Idle
      /\ \A q \in Request \ {r} : req'[q] = req[q]
  BY IdleIsLocal DEF End, IInv, TypeOK
<1>2. /\ holder' \in [Day -> Request \cup {Nil}]
      /\ \A d \in Day : holder[d] # r => holder'[d] = holder[d]
  BY DEF End, Release, IInv, TypeOK
<1>3. TypeOK'
  BY <1>1, <1>2 DEF IInv, TypeOK
<1>4. SubmitOK(r)'
  BY <1>1, <1>3, IdleOK, IdleFields, BoundAssumption
     DEF SubmitOK, TypeOK, Day, Working, Deciding
<1>5. ASSUME NEW q \in Request \ {r}, req[q].phase \in Working
      PROVE  holder'[req[q].day] = holder[req[q].day]
  <2>1. holder[req[q].day] = q /\ req[q].day \in Day
    BY <1>5, LocalFields DEF IInv, SubmitOK, TypeOK
  <2> QED  BY <1>2, <2>1
<1>6. today <= today'
  BY DEF IInv, TypeOK, Day
<1> QED  BY <1>1, <1>3, <1>4, <1>5, <1>6, Kept

(* A submit that goes on without a lock, or with the one it holds.          *)
LEMMA Goes ==
  ASSUME IInv, NEW r \in Request, NEW l \in Local, req' = [req EXCEPT ![r] = l],
         UNCHANGED <<game, today, attempt, accepted, holder>>,
         member' \in BOOLEAN, player' \in BOOLEAN, round' \subseteq Day, arrived' \in Nat,
         SubmitOK(r)'
  PROVE  IInv'
<1>1. req' \in [Request -> Local] /\ \A q \in Request \ {r} : req'[q] = req[q]
  BY DEF IInv, TypeOK
<1>2. TypeOK'
  BY <1>1 DEF IInv, TypeOK
<1>3. today <= today'
  BY DEF IInv, TypeOK, Day
<1> QED  BY <1>1, <1>2, <1>3, Kept

Early == {"idle", "player", "player_insert", "member", "round", "round_insert", "lock"}

LEMMA GoesEarly ==
  ASSUME IInv, NEW r \in Request, req[r].phase \in Early, NEW phase \in Early, phase # "idle",
         NEW is_member \in BOOLEAN, req[r].phase # "idle",
         req' = [req EXCEPT ![r] = [req[r] EXCEPT !.phase = phase, !.is_member = is_member]],
         UNCHANGED <<game, today, attempt, accepted, holder>>,
         member' \in BOOLEAN, player' \in BOOLEAN, round' \subseteq Day, arrived' \in Nat
  PROVE  IInv'
<1> DEFINE l == [req[r] EXCEPT !.phase = phase, !.is_member = is_member]
<1>1. req[r] \in Local /\ SubmitOK(r)
  BY DEF IInv, TypeOK
<1>2. /\ l \in Local /\ l.phase = phase /\ l.day = req[r].day /\ l.row = req[r].row
      /\ l.guesses = req[r].guesses /\ l.finished = req[r].finished
      /\ l.points = req[r].points /\ l.submission = req[r].submission
  BY <1>1 DEF Local, Phase, Early
<1>3. req'[r] = l
  BY DEF IInv, TypeOK
<1> HIDE DEF l
<1>4. SubmitOK(r)'
  BY <1>1, <1>2, <1>3 DEF SubmitOK, Working, Deciding, Early
<1> QED  BY <1>2, <1>4, Goes DEF l

LEMMA Undecided ==
  ASSUME NEW r, req'[r].phase \in Phase \ Deciding, req'[r].day <= today',
         req'[r].submission \in Submission, req'[r].row = 0, req'[r].guesses = 0,
         ~ req'[r].finished, req'[r].points = 0,
         req'[r].phase = "play" => holder'[req'[r].day] = r
  PROVE  SubmitOK(r)'
BY DEF SubmitOK, Working, Deciding

LEMMA SubmitKeeps ==
  ASSUME IInv, NEW r \in Request, NEW s \in Submission, Submit(r, s)
  PROVE  IInv'
<1> DEFINE l == [Idle EXCEPT !.phase = "player", !.day = today, !.submission = s]
<1>1. /\ l.phase = "player" /\ l.day = today /\ l.submission = s /\ l.row = 0
      /\ l.guesses = 0 /\ ~ l.finished /\ l.points = 0 /\ l \in Local
  BY DEF Idle, Local, Phase, IInv, TypeOK
<1>2. req' = [req EXCEPT ![r] = l] /\ req'[r] = l /\ today' = today /\ today \in Nat
  BY DEF Submit, IInv, TypeOK, Day
<1> HIDE DEF l
<1>3. SubmitOK(r)'
  BY <1>1, <1>2, Undecided DEF Phase, Deciding
<1>4. /\ UNCHANGED <<game, today, attempt, accepted, holder>>
      /\ member' \in BOOLEAN /\ player' \in BOOLEAN /\ round' \subseteq Day /\ arrived' \in Nat
  BY DEF Submit, tables, IInv, TypeOK
<1> QED  BY <1>1, <1>2, <1>3, <1>4, Goes

LEMMA GoIsUpdate ==
  ASSUME IInv, NEW r \in Request, NEW phase, Go(r, phase)
  PROVE  req' = [req EXCEPT ![r] = [req[r] EXCEPT !.phase = phase, !.is_member = req[r].is_member]]
<1>1. req[r] \in Local
  BY DEF IInv, TypeOK
<1>2. [req[r] EXCEPT !.phase = phase] = [req[r] EXCEPT !.phase = phase, !.is_member = req[r].is_member]
  BY <1>1 DEF Local
<1> QED  BY <1>2 DEF Go

LEMMA EarlyKeeps ==
  ASSUME IInv, NEW r \in Request,
         FindPlayer(r) \/ InsertPlayer(r) \/ ReadMember(r) \/ FindRound(r) \/ InsertRound(r)
  PROVE  IInv'
<1>1. req[r] \in Local /\ req[r].is_member \in BOOLEAN /\ req[r].day \in Day /\ member \in BOOLEAN
  BY LocalFields DEF IInv, TypeOK
<1>2. /\ UNCHANGED <<game, today, attempt, accepted>>
      /\ member' \in BOOLEAN /\ player' \in BOOLEAN /\ round' \subseteq Day /\ arrived' \in Nat
  BY <1>1 DEF FindPlayer, InsertPlayer, ReadMember, FindRound, InsertRound, clock, tables, IInv, TypeOK
<1>3. CASE InsertPlayer(r) /\ player
  BY <1>2, <1>3, Ends DEF InsertPlayer
<1>4. ASSUME NEW phase \in Early, phase # "idle", Go(r, phase), holder' = holder,
             req[r].phase \in Early, req[r].phase # "idle"
      PROVE  IInv'
  BY <1>1, <1>2, <1>4, GoIsUpdate, GoesEarly
<1>5. CASE FindPlayer(r)
  BY <1>4, <1>5 DEF FindPlayer, At, Early
<1>6. CASE InsertPlayer(r) /\ ~ player
  BY <1>4, <1>6 DEF InsertPlayer, At, Early
<1>7. CASE FindRound(r)
  BY <1>4, <1>7 DEF FindRound, At, Early
<1>8. CASE InsertRound(r)
  BY <1>4, <1>8 DEF InsertRound, At, Early
<1>9. CASE ReadMember(r)
  <2>1. /\ req' = [req EXCEPT ![r] = [req[r] EXCEPT !.phase = "round", !.is_member = member]]
        /\ req[r].phase = "member" /\ holder' = holder
    BY <1>9 DEF ReadMember, At
  <2> QED  BY <1>1, <1>2, <2>1, GoesEarly DEF Early
<1> QED  BY <1>3, <1>5, <1>6, <1>7, <1>8, <1>9 DEF IInv, TypeOK

LEMMA LockKeeps == ASSUME IInv, NEW r \in Request, Lock(r) PROVE IInv'
<1> DEFINE l == [req[r] EXCEPT !.phase = "play"]
           d == req[r].day
<1>1. req[r] \in Local /\ SubmitOK(r) /\ d \in Day /\ req[r].phase = "lock"
  BY LocalFields DEF IInv, TypeOK, Lock, At
<1>2. /\ l \in Local /\ l.phase = "play" /\ l.day = d /\ l.row = req[r].row
      /\ l.guesses = req[r].guesses /\ l.finished = req[r].finished
      /\ l.points = req[r].points /\ l.submission = req[r].submission
  BY <1>1 DEF Local, Phase
<1>3. /\ req'[r] = l /\ \A q \in Request \ {r} : req'[q] = req[q]
      /\ req' \in [Request -> Local]
  BY <1>2 DEF Lock, Go, IInv, TypeOK
<1>4. /\ holder[d] = Nil /\ holder'[d] = r /\ \A e \in Day \ {d} : holder'[e] = holder[e]
      /\ holder' \in [Day -> Request \cup {Nil}]
  BY <1>1 DEF Lock, IInv, TypeOK
<1>5. TypeOK' /\ UNCHANGED <<game, today, attempt, accepted>>
  BY <1>3, <1>4 DEF Lock, tables, clock, IInv, TypeOK
<1> HIDE DEF l, d
<1>6. SubmitOK(r)'
  <2>1. /\ req[r].row = 0 /\ req[r].guesses = 0 /\ ~ req[r].finished /\ req[r].points = 0
        /\ req[r].submission \in Submission /\ req[r].day <= today
    BY <1>1 DEF SubmitOK, Deciding
  <2> QED  BY <1>2, <1>3, <1>4, <1>5, <2>1, Undecided DEF d, Phase, Deciding
<1>7. ASSUME NEW q \in Request \ {r}, req[q].phase \in Working
      PROVE  holder'[req[q].day] = holder[req[q].day]
  <2>1. holder[req[q].day] = q /\ req[q].day \in Day
    BY <1>7, LocalFields DEF IInv, SubmitOK, TypeOK
  <2> QED  BY <1>4, <2>1, NilAssumption
<1>8. today <= today'
  BY <1>5 DEF IInv, TypeOK, Day
<1> QED  BY <1>3, <1>5, <1>6, <1>7, <1>8, Kept

-----------------------------------------------------------------------------
(* The latest row of a round of Codle is the only one.                      *)
LEMMA LatestBoard ==
  ASSUME IInv, single, NEW d, NEW i \in Plays(d)
  PROVE  Plays(d) = {i} /\ Max(Plays(d)) = i /\ i # 0 /\ i \in DOMAIN attempt
<1>1. /\ i \in DOMAIN attempt /\ i \in Nat \ {0}
  BY Rows DEF IInv
<1>2. Plays(d) = {i}
  BY DEF IInv, BoardsOK, Plays
<1>3. Max({i}) = i
  <2>1. \A y \in {i} : i >= y
    BY <1>1
  <2> QED  BY <2>1 DEF Max
<1> QED  BY <1>1, <1>2, <1>3

LEMMA ContinueAttemptKeeps == ASSUME IInv, NEW r \in Request, ContinueAttempt(r) PROVE IInv'
<1> DEFINE d == req[r].day
           s == req[r].submission
           latest == IF Plays(d) = {} THEN 0 ELSE Max(Plays(d))
           guesses == 1 + IF latest = 0 THEN 0 ELSE attempt[latest].guesses
           finished == s.solved \/ guesses >= game.max_guesses
           phase == IF finished THEN "award" ELSE "write"
           l == [req[r] EXCEPT !.phase = phase, !.row = latest,
                               !.guesses = guesses, !.finished = finished]
<1> HIDE DEF l
<1>1. /\ UNCHANGED <<game, today, attempt, accepted>> /\ single
      /\ member' \in BOOLEAN /\ player' \in BOOLEAN /\ round' \subseteq Day /\ arrived' \in Nat
  BY DEF ContinueAttempt, clock, tables, single, IInv, TypeOK
<1>2. CASE End(r)
  BY <1>1, <1>2, Ends
<1>3. CASE /\ ~ (latest # 0 /\ attempt[latest].finished)
           /\ req' = [req EXCEPT ![r] = l] /\ UNCHANGED holder
  <2>1. /\ req[r] \in Local /\ SubmitOK(r) /\ req[r].phase = "play" /\ s \in Submission
        /\ s.solved \in BOOLEAN /\ req[r].day \in Day /\ req[r].points = 0
        /\ holder[d] = r /\ d <= today
    <3>1. req[r] \in Local /\ SubmitOK(r) /\ req[r].phase = "play"
      BY DEF IInv, TypeOK, ContinueAttempt, At
    <3>2. s \in Submission /\ req[r].points = 0 /\ holder[d] = r /\ d <= today
      BY <3>1 DEF SubmitOK, Working
    <3> QED  BY <3>1, <3>2, LocalFields, SubmissionAssumption
  <2>2. game.max_guesses \in Nat \ {0} /\ game.points_per_day_cap \in Nat
    BY GameFields DEF IInv
  <2>3. /\ latest = 0 => Plays(d) = {} /\ guesses = 1
        /\ latest # 0 => latest \in Plays(d) /\ ~ attempt[latest].finished
                         /\ guesses = attempt[latest].guesses + 1
                         /\ latest \in DOMAIN attempt
    <3>1. CASE Plays(d) = {}
      BY <3>1
    <3>2. CASE Plays(d) # {}
      <4>1. PICK i \in Plays(d) : TRUE
        BY <3>2
      <4>2. latest = i /\ i # 0 /\ i \in DOMAIN attempt /\ i \in Plays(d)
        BY <1>1, <3>2, <4>1, LatestBoard
      <4>3. guesses = attempt[i].guesses + 1
        <5>1. attempt[i].guesses \in Nat
          BY <4>2, Rows DEF IInv
        <5> HIDE DEF latest
        <5> QED  BY <4>2, <5>1
      <4> HIDE DEF latest, guesses
      <4>4. ~ attempt[latest].finished
        BY <1>3, <4>2
      <4> QED  BY <4>2, <4>3, <4>4
    <3> QED  BY <3>1, <3>2
  <2>4. /\ latest \in Nat /\ guesses \in Nat /\ finished \in BOOLEAN
        /\ guesses <= game.max_guesses /\ (~ finished => guesses < game.max_guesses)
        /\ phase = IF finished THEN "award" ELSE "write"
    <3>1. CASE latest = 0
      BY <2>1, <2>2, <2>3, <3>1
    <3>2. CASE latest # 0
      <4> HIDE DEF latest
      <4>1. latest \in Nat /\ attempt[latest].guesses \in Nat
        BY <2>3, <3>2, Rows DEF IInv
      <4>2. attempt[latest].guesses < game.max_guesses
        BY <2>3, <3>2 DEF IInv, AttemptOK
      <4> QED  BY <2>1, <2>2, <2>3, <3>2, <4>1, <4>2
    <3> QED  BY <3>1, <3>2
  <2> HIDE DEF latest, guesses, finished, phase
  <2>5. /\ l \in Local /\ l.phase = phase /\ l.row = latest /\ l.guesses = guesses
        /\ l.finished = finished /\ l.day = d /\ l.submission = s /\ l.points = 0
    BY <2>1, <2>4 DEF Local, Phase, l
  <2>6. req'[r] = l /\ req' = [req EXCEPT ![r] = l]
    BY <1>3 DEF IInv, TypeOK
  <2>7. /\ \A e : Plays(e)' = Plays(e) /\ Earned(e)' = Earned(e)
        /\ Earned(d) \in Nat /\ Earned(d) <= game.points_per_day_cap /\ single'
    BY <1>1, <2>1, EarnedIsNat, SameRows DEF IInv
  <2>8. SubmitOK(r)'
    <3> HIDE DEF d, s
    <3>1. /\ req'[r].phase = phase /\ req'[r].row = latest /\ req'[r].guesses = guesses
          /\ req'[r].finished = finished /\ req'[r].day = d /\ req'[r].submission = s
          /\ req'[r].points = 0
      BY <2>5, <2>6
    <3>2. holder'[d] = r /\ d <= today'
      BY <1>1, <1>3, <2>1
    <3>3. 0 + Earned(d) <= game'.points_per_day_cap
      BY <1>1, <2>7
    <3>4. /\ latest = 0 => Plays(d) = {} /\ guesses = 1
          /\ latest # 0 => latest \in Plays(d) /\ ~ attempt'[latest].finished
                           /\ guesses = attempt'[latest].guesses + 1
      BY <1>1, <2>3, <2>7
    <3>5. guesses <= game'.max_guesses /\ (~ finished => guesses < game'.max_guesses)
      BY <1>1, <2>4
    <3> QED  BY <2>1, <2>4, <2>7, <3>1, <3>2, <3>3, <3>4, <3>5
             DEF SubmitOK, Working, Deciding
  <2> QED  BY <1>1, <1>3, <2>5, <2>6, <2>8, Goes
<1> QED  BY <1>2, <1>3 DEF ContinueAttempt, l

LEMMA NewAttemptKeeps == ASSUME IInv, NEW r \in Request, NewAttempt(r) PROVE IInv'
<1> DEFINE d == req[r].day
           l == [req[r] EXCEPT !.phase = "award", !.finished = TRUE]
<1>1. /\ UNCHANGED <<game, today, attempt, accepted>> /\ ~ single
      /\ member' \in BOOLEAN /\ player' \in BOOLEAN /\ round' \subseteq Day /\ arrived' \in Nat
  BY DEF NewAttempt, clock, tables, single, IInv, TypeOK
<1>2. CASE End(r)
  BY <1>1, <1>2, Ends
<1>3. CASE /\ ~ (~ req[r].is_member /\ Cardinality(Plays(d)) >= game.nonmember_round_play_cap)
           /\ req' = [req EXCEPT ![r] = l] /\ UNCHANGED holder
  <2>1. /\ req[r] \in Local /\ SubmitOK(r) /\ req[r].phase = "play" /\ d \in Day
        /\ req[r].submission \in Submission /\ req[r].points = 0 /\ req[r].row = 0
        /\ holder[d] = r /\ d <= today
    BY LocalFields DEF IInv, TypeOK, NewAttempt, At, SubmitOK, Working, Deciding
  <2>2. game.nonmember_round_play_cap \in Nat /\ Cardinality(Plays(d)) \in Nat
    BY GameFields, Rows, FS_CardinalityType DEF IInv
  <2>3. /\ l \in Local /\ l.phase = "award" /\ l.row = 0 /\ l.finished /\ l.day = d
        /\ l.submission = req[r].submission /\ l.points = 0 /\ l.is_member = req[r].is_member
    BY <2>1 DEF Local, Phase
  <2>4. req'[r] = l /\ req' = [req EXCEPT ![r] = l]
    BY <1>3 DEF IInv, TypeOK
  <2>5. (\A e : Plays(e)' = Plays(e)) /\ ~ single'
    BY <1>1, SameRows
  <2> HIDE DEF l, d
  <2>6. ~ l.is_member => Cardinality(Plays(d)) < game'.nonmember_round_play_cap
    BY <1>1, <1>3, <2>2, <2>3, <2>5
  <2>7. SubmitOK(r)'
    BY <1>1, <1>3, <2>1, <2>3, <2>4, <2>5, <2>6 DEF SubmitOK, Working, Deciding
  <2> QED  BY <1>1, <1>3, <2>3, <2>4, <2>7, Goes
<1> QED  BY <1>2, <1>3 DEF NewAttempt

(* What `award_points` grants fits into what is left of the day.            *)
LEMMA ClampFits ==
  ASSUME TypeOK, NEW base \in Nat, NEW already \in Nat, NEW earned \in Nat,
         earned <= already, earned <= game.points_per_day_cap
  PROVE  /\ Clamp(base, already) \in Nat
         /\ Clamp(base, already) + earned <= game.points_per_day_cap
BY GameFields DEF Clamp

LEMMA AwardKeeps == ASSUME IInv, NEW r \in Request, Award(r) PROVE IInv'
<1> DEFINE d == req[r].day
           points == Clamp(BasePoints(req[r].submission, req[r].guesses), PointsSince(d))
           l == [req[r] EXCEPT !.phase = "write", !.points = points]
<1>1. /\ UNCHANGED <<game, today, attempt, accepted, holder>>
      /\ member' \in BOOLEAN /\ player' \in BOOLEAN /\ round' \subseteq Day /\ arrived' \in Nat
  BY DEF Award, clock, tables, IInv, TypeOK
<1>2. /\ req[r] \in Local /\ SubmitOK(r) /\ req[r].phase = "award" /\ d \in Day
      /\ req[r].submission \in Submission /\ req[r].guesses \in Nat
  BY LocalFields DEF IInv, TypeOK, Award, At, SubmitOK
<1>3. BasePoints(req[r].submission, req[r].guesses) \in Nat
  <2>1. single => req[r].guesses <= game.max_guesses
    BY <1>2 DEF SubmitOK, Deciding
  <2>2. req[r].submission.score \in Nat
    BY <1>2, SubmissionAssumption
  <2> QED  BY <1>2, <2>1, <2>2, GameFields DEF BasePoints, IInv, single
<1>4. Earned(d) <= PointsSince(d) /\ PointsSince(d) \in Nat /\ Earned(d) \in Nat
  <2> DEFINE since == {i \in DOMAIN attempt : attempt[i].played >= d}
  <2>1. Plays(d) \subseteq since /\ since \subseteq DOMAIN attempt
    BY DEF IInv, AttemptOK, Plays
  <2>2. IsFiniteSet(since) /\ \A i \in since : Points[i] \in Nat
    BY <2>1, Rows DEF IInv
  <2> HIDE DEF since
  <2>3. SumFunctionOnSet(Points, Plays(d)) <= SumFunctionOnSet(Points, since)
    BY <2>1, <2>2, SumGrows
  <2>4. SumFunctionOnSet(Points, since) \in Nat
    BY <2>2, SumIsNat
  <2> QED  BY <2>3, <2>4, EarnedIsNat DEF since, PointsSince, Earned, IInv
<1>5. points \in Nat /\ points + Earned(d) <= game.points_per_day_cap
  BY <1>2, <1>3, <1>4, ClampFits DEF IInv
<1> HIDE DEF points
<1>6. /\ l \in Local /\ l.phase = "write" /\ l.points = points /\ l.day = d /\ l.row = req[r].row
      /\ l.guesses = req[r].guesses /\ l.finished = req[r].finished
      /\ l.submission = req[r].submission /\ l.is_member = req[r].is_member
  BY <1>2, <1>5 DEF Local, Phase
<1>7. req'[r] = l /\ req' = [req EXCEPT ![r] = l]
  BY DEF Award, IInv, TypeOK, points
<1>8. /\ \A e : Plays(e)' = Plays(e) /\ Earned(e)' = Earned(e)
      /\ single' = single
  BY <1>1, SameRows
<1>9. req[r].finished \/ ~ single
  BY <1>2 DEF SubmitOK, Deciding
<1> HIDE DEF l
<1>10. SubmitOK(r)'
  BY <1>1, <1>2, <1>5, <1>6, <1>7, <1>8, <1>9 DEF SubmitOK, Working, Deciding
<1> QED  BY <1>1, <1>6, <1>7, <1>10, Goes

-----------------------------------------------------------------------------
(* What a write does to the rows: one of its round, `i`, is new or is the   *)
(* open board the submit goes on with.                                      *)
Written(r, i) ==
  LET l == req[r] IN
  /\ attempt' \in Seq(Attempt)
  /\ DOMAIN attempt' = DOMAIN attempt \cup {i}
  /\ \A j \in DOMAIN attempt \ {i} : attempt'[j] = attempt[j]
  /\ attempt'[i].round = l.day
  /\ attempt'[i].played >= l.day
  /\ attempt'[i].guesses = l.guesses
  /\ attempt'[i].finished = l.finished
  /\ attempt'[i].points = l.points
  /\ attempt'[i].is_member_play = l.is_member
  /\ i \in DOMAIN attempt =>
       /\ single /\ i = l.row /\ i \in Plays(l.day) /\ ~ attempt[i].finished
       /\ attempt[i].points = 0
  /\ i \notin DOMAIN attempt => l.row = 0

LEMMA WriteWrites ==
  ASSUME IInv, NEW r \in Request, Write(r)
  PROVE  \E i : Written(r, i)
<1> DEFINE l == req[r]
           n == Len(attempt) + 1
           new == [round |-> l.day, played |-> today, guesses |-> l.guesses,
                   finished |-> l.finished, points |-> l.points, is_member_play |-> l.is_member]
<1>1. /\ l \in Local /\ SubmitOK(r) /\ l.phase = "write" /\ attempt \in Seq(Attempt)
      /\ today \in Day
  BY DEF IInv, TypeOK, Write, At
<1>2. /\ l.day \in Day /\ l.guesses \in Nat /\ l.finished \in BOOLEAN /\ l.points \in Nat
      /\ l.is_member \in BOOLEAN /\ l.row \in Nat /\ l.day <= today
  BY <1>1, LocalFields DEF SubmitOK
<1>3. CASE l.row = 0
  <2>1. new \in Attempt
    BY <1>1, <1>2 DEF Attempt
  <2>2. attempt' = Append(attempt, new)
    BY <1>3 DEF Write
  <2> HIDE DEF new
  <2>3. /\ attempt' \in Seq(Attempt) /\ DOMAIN attempt' = DOMAIN attempt \cup {n}
        /\ \A j \in DOMAIN attempt : j # n /\ attempt'[j] = attempt[j]
        /\ attempt'[n] = new /\ n \notin DOMAIN attempt
    BY <1>1, <2>1, <2>2
  <2> HIDE DEF n
  <2>4. Written(r, n)
    BY <1>2, <1>3, <2>3 DEF Written, new
  <2> QED  BY <2>4
<1>4. CASE l.row # 0
  <2>1. single /\ l.row \in Plays(l.day) /\ ~ attempt[l.row].finished
    BY <1>1, <1>4 DEF SubmitOK, Deciding
  <2>2. /\ l.row \in DOMAIN attempt /\ attempt[l.row] \in Attempt
        /\ attempt[l.row].played >= attempt[l.row].round /\ attempt[l.row].points = 0
        /\ attempt[l.row].round = l.day
    BY <2>1, Rows DEF IInv, AttemptOK, Plays
  <2> DEFINE old == attempt[l.row]
             upd == [old EXCEPT !.guesses = l.guesses, !.finished = l.finished,
                                !.points = l.points, !.is_member_play = l.is_member]
  <2>3. /\ upd \in Attempt /\ upd.round = l.day /\ upd.played = old.played
        /\ upd.guesses = l.guesses /\ upd.finished = l.finished /\ upd.points = l.points
        /\ upd.is_member_play = l.is_member
    BY <1>2, <2>2 DEF Attempt
  <2>4. attempt' = [attempt EXCEPT ![l.row] = upd]
    <3>1. attempt' = [attempt EXCEPT ![l.row].guesses = l.guesses, ![l.row].finished = l.finished,
                            ![l.row].points = l.points, ![l.row].is_member_play = l.is_member]
      BY <1>4 DEF Write
    <3> QED  BY <2>2, <3>1
  <2> HIDE DEF upd
  <2>5. /\ attempt' \in Seq(Attempt) /\ DOMAIN attempt' = DOMAIN attempt
        /\ attempt'[l.row] = upd /\ \A j \in DOMAIN attempt \ {l.row} : attempt'[j] = attempt[j]
    BY <1>1, <2>2, <2>3, <2>4
  <2>6. Written(r, l.row)
    BY <2>1, <2>2, <2>3, <2>5 DEF Written
  <2> QED  BY <2>6
<1> QED  BY <1>3, <1>4

(* The rounds after a write: its own has the row more, and its points.      *)
LEMMA AfterWrite ==
  ASSUME IInv, TypeOK', NEW r \in Request, NEW i, Written(r, i), game' = game
  PROVE  \A e : IF e = req[r].day
                THEN Plays(e)' = Plays(e) \cup {i} /\ Earned(e)' = Earned(e) + req[r].points
                ELSE Plays(e)' = Plays(e) /\ Earned(e)' = Earned(e) /\ Guests(e)' = Guests(e)
<1> DEFINE d == req[r].day
<1>1. /\ DOMAIN attempt' = DOMAIN attempt \cup {i} /\ attempt'[i].round = d
      /\ i \in DOMAIN attempt => attempt[i].round = d
      /\ \A j \in DOMAIN attempt \ {i} : attempt'[j] = attempt[j]
  BY DEF Written, Plays
<1>2. \A e : IF e = d THEN Plays(e)' = Plays(e) \cup {i} ELSE Plays(e)' = Plays(e)
  BY <1>1 DEF Plays
<1>3. ASSUME NEW e, e # d
      PROVE  Earned(e)' = Earned(e) /\ Guests(e)' = Guests(e)
  <2>1. /\ Plays(e)' = Plays(e) /\ Plays(e) \subseteq DOMAIN attempt /\ IsFiniteSet(Plays(e))
        /\ i \notin Plays(e)
    BY <1>1, <1>2, <1>3, Rows DEF IInv, Plays
  <2>2. \A j \in Plays(e) : attempt'[j] = attempt[j] /\ Points'[j] = Points[j]
    BY <1>1, <2>1 DEF Points
  <2> QED  BY <2>1, <2>2, SumAgrees DEF Earned, Guests
<1>4. \A e : e = d => Earned(e)' = Earned(e) + req[r].points
  <2>1. /\ IsFiniteSet(Plays(d)) /\ Plays(d) \subseteq DOMAIN attempt
        /\ \A j \in Plays(d) : Points[j] \in Nat /\ j \in DOMAIN attempt
    BY Rows DEF IInv
  <2>2. /\ \A j \in DOMAIN attempt' : Points'[j] \in Nat /\ Points'[j] = attempt'[j].points
        /\ Points'[i] = req[r].points
        /\ \A j \in Plays(d) \ {i} : Points'[j] = Points[j]
    <3>1. \A j \in DOMAIN attempt' : attempt'[j] \in Attempt /\ Points'[j] = attempt'[j].points
      BY DEF TypeOK, Points
    <3> QED  BY <1>1, <2>1, <3>1 DEF Attempt, Points, Written
  <2>3. CASE i \notin DOMAIN attempt
    <3>1. SumFunctionOnSet(Points', Plays(d) \cup {i})
            = Points'[i] + SumFunctionOnSet(Points', Plays(d))
      BY <1>1, <2>1, <2>2, <2>3, SumAdds
    <3>2. SumFunctionOnSet(Points', Plays(d)) = SumFunctionOnSet(Points, Plays(d))
      BY <2>1, <2>2, <2>3, SumAgrees
    <3>3. SumFunctionOnSet(Points, Plays(d)) \in Nat /\ req[r].points \in Nat
      BY <2>1, <2>2, <1>1, SumIsNat
    <3>4. \A e : e = d => Plays(e)' = Plays(d) \cup {i} /\ Plays(e) = Plays(d)
      BY <1>2
    <3> HIDE DEF d
    <3> QED  BY <2>2, <3>1, <3>2, <3>3, <3>4 DEF Earned
  <2>4. CASE i \in DOMAIN attempt
    <3>1. i \in Plays(d) /\ Points[i] = 0 /\ Plays(d) \cup {i} = Plays(d)
      BY <2>4 DEF Written, Points
    <3>2. SumFunctionOnSet(Points', Plays(d)) + Points[i]
            = SumFunctionOnSet(Points, Plays(d)) + Points'[i]
      <4>1. \A j \in Plays(d) : Points[j] \in Nat /\ Points'[j] \in Nat
        BY <1>1, <2>1, <2>2
      <4> QED  BY <2>1, <2>2, <3>1, <4>1, SumUpdates
    <3>3. /\ SumFunctionOnSet(Points, Plays(d)) \in Nat /\ req[r].points \in Nat
          /\ SumFunctionOnSet(Points', Plays(d)) \in Nat
      BY <1>1, <2>1, <2>2, SumIsNat
    <3>4. \A e : e = d => Plays(e)' = Plays(d) \cup {i} /\ Plays(e) = Plays(d)
      BY <1>2
    <3> HIDE DEF d
    <3> QED  BY <2>2, <3>1, <3>2, <3>3, <3>4 DEF Earned
  <2> QED  BY <2>3, <2>4
<1> QED  BY <1>2, <1>3, <1>4

LEMMA WriteKeeps == ASSUME IInv, NEW r \in Request, Write(r) PROVE IInv'
<1>1. PICK i : Written(r, i)
  BY WriteWrites
<1>2. /\ SubmitOK(r) /\ req[r] \in Local /\ req[r].phase = "write" /\ req[r].day \in Day
      /\ req[r].points \in Nat /\ req[r].guesses \in Nat /\ req[r].row \in Nat
      /\ holder[req[r].day] = r /\ TypeOK
      /\ game' = game /\ today' = today /\ single' = single
  BY LocalFields DEF IInv, TypeOK, Write, At, SubmitOK, Working, clock, single
<1>3. /\ accepted' \in [Day -> Nat] /\ accepted'[req[r].day] = accepted[req[r].day] + 1
      /\ \A e \in Day : e # req[r].day => accepted'[e] = accepted[e]
  BY <1>2 DEF Write, TypeOK
<1>4. /\ req' \in [Request -> Local] /\ req'[r] = Idle /\ \A q \in Request \ {r} : req'[q] = req[q]
      /\ holder' \in [Day -> Request \cup {Nil}]
      /\ \A e \in Day : holder[e] # r => holder'[e] = holder[e]
  BY IdleIsLocal DEF Write, End, Release, IInv, TypeOK
<1>5. TypeOK'
  BY <1>1, <1>2, <1>3, <1>4 DEF TypeOK, Write, Written, clock
<1>6. \A e : IF e = req[r].day
             THEN Plays(e)' = Plays(e) \cup {i} /\ Earned(e)' = Earned(e) + req[r].points
             ELSE Plays(e)' = Plays(e) /\ Earned(e)' = Earned(e) /\ Guests(e)' = Guests(e)
  BY <1>1, <1>2, <1>5, AfterWrite
<1>7. /\ game.points_per_day_cap \in Nat /\ game.nonmember_round_play_cap \in Nat \ {0}
      /\ game.max_guesses \in Nat \ {0} /\ single \in BOOLEAN
  BY <1>2, GameFields
(* One board: the round was empty, or held the row that is written.         *)
<1>8. single => Plays(req[r].day) \subseteq {i} /\ accepted'[req[r].day] = req[r].guesses
  <2> SUFFICES ASSUME single PROVE Plays(req[r].day) \subseteq {i} /\ accepted'[req[r].day] = req[r].guesses
    OBVIOUS
  <2>1. CASE i \in DOMAIN attempt
    <3>1. i = req[r].row /\ i # 0 /\ i \in Plays(req[r].day)
      BY <1>1, <1>2, <2>1, Rows DEF Written
    <3>2. attempt[i].guesses + 1 = req[r].guesses /\ attempt[i].round = req[r].day
      BY <1>2, <3>1 DEF SubmitOK, Deciding, Plays
    <3> QED  BY <1>3, <2>1, <3>1, <3>2, LatestBoard DEF IInv, BoardsOK
  <2>2. CASE i \notin DOMAIN attempt
    <3>1. Plays(req[r].day) = {} /\ req[r].guesses = 1
      BY <1>1, <1>2, <2>2 DEF SubmitOK, Deciding, Written
    <3> QED  BY <1>2, <1>3, <3>1 DEF IInv, BoardsOK
  <2> QED  BY <2>1, <2>2
<1>9. \A j \in DOMAIN attempt' : AttemptOK(j)'
  <2>1. AttemptOK(i)'
    BY <1>1, <1>2 DEF AttemptOK, Written, SubmitOK, Deciding
  <2>2. ASSUME NEW j \in DOMAIN attempt \ {i} PROVE AttemptOK(j)'
    BY <1>1, <1>2 DEF IInv, AttemptOK, Written
  <2> QED  BY <1>1, <2>1, <2>2 DEF Written
<1>10. (single => BoardsOK)'
  <2> SUFFICES ASSUME single PROVE BoardsOK'
    BY <1>2
  <2>1. BoardsOK /\ DOMAIN attempt' = DOMAIN attempt \cup {i} /\ attempt'[i].round = req[r].day
        /\ attempt'[i].guesses = req[r].guesses
        /\ \A j \in DOMAIN attempt \ {i} : attempt'[j] = attempt[j] /\ attempt[j].round # req[r].day
                                           /\ attempt[j].round \in Day
    BY <1>1, <1>2, <1>8, Rows DEF IInv, Written, Plays
  <2>2. (\A j, k \in DOMAIN attempt : attempt[j].round = attempt[k].round => j = k)'
    BY <2>1 DEF BoardsOK
  <2>3. (\A j \in DOMAIN attempt : attempt[j].guesses = accepted[attempt[j].round])'
    BY <1>3, <1>8, <2>1 DEF BoardsOK
  <2>4. ASSUME NEW e \in Day, Plays(e)' = {} PROVE accepted'[e] = 0
    BY <1>3, <1>6, <2>1, <2>4 DEF BoardsOK
  <2> QED  BY <2>2, <2>3, <2>4 DEF BoardsOK
<1>11. \A e \in Day : Earned(e)' <= game'.points_per_day_cap
  <2>1. req[r].points + Earned(req[r].day) <= game.points_per_day_cap /\ Earned(req[r].day) \in Nat
    BY <1>2, EarnedIsNat DEF SubmitOK
  <2>2. \A e \in Day : Earned(e) <= game.points_per_day_cap
    BY DEF IInv
  <2> QED  BY <1>2, <1>6, <2>1, <2>2
<1>12. \A e \in Day : Cardinality(Guests(e))' <= game'.nonmember_round_play_cap
  <2>1. ASSUME NEW e \in Day, e # req[r].day
        PROVE  Cardinality(Guests(e))' <= game'.nonmember_round_play_cap
    BY <1>2, <1>6, <2>1 DEF IInv
  <2>2. ASSUME NEW e \in Day, e = req[r].day
        PROVE  Cardinality(Guests(e))' <= game'.nonmember_round_play_cap
    <3>1. /\ Guests(e)' \subseteq Plays(e) \cup {i}
          /\ req[r].is_member => Guests(e)' \subseteq Guests(e)
      BY <1>1, <1>6, <2>2 DEF Guests, Written, Plays
    <3>2. /\ IsFiniteSet(Plays(e)) /\ IsFiniteSet(Plays(e) \cup {i}) /\ IsFiniteSet(Guests(e))
          /\ Cardinality(Plays(e)) \in Nat
          /\ Cardinality(Plays(e) \cup {i}) <= Cardinality(Plays(e)) + 1
          /\ Cardinality({i}) = 1 /\ IsFiniteSet({i})
      <4>1. IsFiniteSet(Plays(e)) /\ IsFiniteSet(Guests(e))
        BY <1>2, Rows
      <4>2. Cardinality(Plays(e)) \in Nat
        BY <4>1, FS_CardinalityType
      <4>3. /\ IsFiniteSet(Plays(e) \cup {i})
            /\ \/ Cardinality(Plays(e) \cup {i}) = Cardinality(Plays(e))
               \/ Cardinality(Plays(e) \cup {i}) = Cardinality(Plays(e)) + 1
        BY <4>1, FS_AddElement
      <4>4. Cardinality({i}) = 1 /\ IsFiniteSet({i})
        BY FS_Singleton
      <4>5. Cardinality(Plays(e) \cup {i}) <= Cardinality(Plays(e)) + 1
        BY <4>2, <4>3
      <4> QED  BY <4>1, <4>2, <4>3, <4>4, <4>5
    <3>3. CASE single
      <4>1. Guests(e)' \subseteq {i}
        BY <1>8, <2>2, <3>1, <3>3
      <4>2. Cardinality(Guests(e)') <= 1 /\ Cardinality(Guests(e)') \in Nat
        BY <3>2, <4>1, FS_Subset, FS_CardinalityType
      <4> QED  BY <1>2, <1>7, <4>2
    <3>4. CASE ~ single /\ req[r].is_member
      <4>1. /\ Cardinality(Guests(e)') <= Cardinality(Guests(e)) /\ Cardinality(Guests(e)') \in Nat
            /\ Cardinality(Guests(e)) \in Nat
        BY <3>1, <3>2, <3>4, FS_Subset, FS_CardinalityType
      <4> QED  BY <1>2, <1>7, <4>1 DEF IInv
    <3>5. CASE ~ single /\ ~ req[r].is_member
      <4>1. Cardinality(Plays(e)) < game.nonmember_round_play_cap
        BY <1>2, <2>2, <3>5 DEF SubmitOK, Deciding
      <4>2. /\ Cardinality(Guests(e)') <= Cardinality(Plays(e) \cup {i})
            /\ Cardinality(Guests(e)') \in Nat /\ Cardinality(Plays(e) \cup {i}) \in Nat
        BY <3>1, <3>2, FS_Subset, FS_CardinalityType
      <4> QED  BY <1>2, <1>7, <3>2, <4>1, <4>2
    <3> QED  BY <3>3, <3>4, <3>5
  <2> QED  BY <2>1, <2>2
(* Whoever else decides, decides about another day.                         *)
<1>13. ASSUME NEW q \in Request PROVE SubmitOK(q)'
  <2>1. CASE q = r
    BY <1>4, <1>5, <2>1, IdleFields, BoundAssumption DEF SubmitOK, TypeOK, Day, Working, Deciding
  <2>2. CASE q # r /\ req[q].phase \in Working
    <3>1. /\ req'[q] = req[q] /\ req[q].day \in Day /\ req[q].day # req[r].day
          /\ holder'[req[q].day] = q /\ SubmitOK(q) /\ req[q].phase \in Working
      BY <1>2, <1>4, <2>2, LocalFields DEF IInv, SubmitOK, TypeOK
    <3>2. \A e : e = req[q].day => Plays(e)' = Plays(e) /\ Earned(e)' = Earned(e)
      BY <1>6, <3>1
    <3>3. req[q].row \in Plays(req[q].day) => attempt'[req[q].row] = attempt[req[q].row]
      <4>1. i \in DOMAIN attempt => i \in Plays(req[r].day)
        BY <1>1 DEF Written
      <4> QED  BY <1>1, <3>1, <4>1 DEF Written, Plays
    <3> QED  BY <1>2, <3>1, <3>2, <3>3 DEF SubmitOK
  <2>3. CASE q # r /\ req[q].phase \notin Working
    <3>1. req'[q] = req[q] /\ SubmitOK(q)
      BY <1>4, <2>3 DEF IInv
    <3> QED  BY <1>2, <2>3, <3>1 DEF SubmitOK, Working, Deciding
  <2> QED  BY <2>1, <2>2, <2>3
<1> QED  BY <1>2, <1>5, <1>9, <1>10, <1>11, <1>12, <1>13 DEF IInv

-----------------------------------------------------------------------------
LEMMA InitInv == ASSUME Init PROVE IInv
<1>1. Init
  OBVIOUS
<1>2. attempt = <<>> /\ DOMAIN attempt = {} /\ attempt \in Seq(Attempt)
  BY <1>1 DEF Init
<1>3. TypeOK
  BY <1>1, <1>2, IdleIsLocal, BoundAssumption DEF Init, TypeOK, Day
<1>4. \A d : Plays(d) = {} /\ Guests(d) = {} /\ Earned(d) = 0 /\ Cardinality(Guests(d)) = 0
  <2>1. \A d : Plays(d) = {} /\ Guests(d) = {}
    BY <1>2 DEF Plays, Guests
  <2> QED  BY <2>1, SumOfNothing, FS_EmptySet DEF Earned
<1>5. single => BoardsOK
  BY <1>1, <1>2 DEF Init, BoardsOK
<1>6. \A r \in Request : SubmitOK(r)
  BY <1>1, <1>3, IdleOK DEF Init
<1> QED  BY <1>2, <1>3, <1>4, <1>5, <1>6, GameFields DEF IInv

LEMMA StepInv == ASSUME IInv, [Next]_vars PROVE IInv'
<1>1. CASE UNCHANGED vars
  <2>1. TypeOK' /\ UNCHANGED <<game, today, attempt, accepted, req, holder>>
    BY <1>1 DEF vars, IInv, TypeOK
  <2>2. today <= today'
    BY <2>1 DEF IInv, TypeOK, Day
  <2> QED  BY <2>1, <2>2, Kept
<1>2. CASE \E r \in Request, s \in Submission : Submit(r, s)
  BY <1>2, SubmitKeeps
<1>3. ASSUME NEW r \in Request, Step(r) PROVE IInv'
  BY <1>3, EarlyKeeps, LockKeeps, ContinueAttemptKeeps, NewAttemptKeeps, AwardKeeps, WriteKeeps
     DEF Step
<1>4. ASSUME NEW r \in Request, RefuseSession(r) \/ Abort(r) PROVE IInv'
  <2>1. /\ End(r) /\ UNCHANGED <<game, today, attempt, accepted>>
        /\ member' \in BOOLEAN /\ player' \in BOOLEAN /\ round' \subseteq Day /\ arrived' \in Nat
    BY <1>4 DEF RefuseSession, Abort, clock, tables, IInv, TypeOK
  <2> QED  BY <2>1, Ends
<1>5. CASE Midnight \/ RosterChanges
  <2>1. TypeOK' /\ today <= today' /\ UNCHANGED <<game, attempt, accepted, req, holder>>
    <3>1. CASE Midnight
      BY <3>1, BoundAssumption DEF Midnight, tables, IInv, TypeOK, Day
    <3>2. CASE RosterChanges
      <4>1. member' \in BOOLEAN
        BY <3>2 DEF RosterChanges
      <4>2. UNCHANGED <<game, today, player, round, attempt, holder, arrived, accepted, req>>
        BY <3>2 DEF RosterChanges, clock
      <4> QED  BY <4>1, <4>2 DEF IInv, TypeOK, Day
    <3> QED  BY <1>5, <3>1, <3>2
  <2> QED  BY <2>1, Kept
<1> QED  BY <1>1, <1>2, <1>3, <1>4, <1>5 DEF Next

LEMMA Invariance == Spec => []IInv
<1>1. Init => IInv
  BY InitInv
<1>2. IInv /\ [Next]_vars => IInv'
  BY StepInv
<1> QED  BY <1>1, <1>2, PTL DEF Spec

-----------------------------------------------------------------------------
(* The tables and what a submit holds keep their shape (models.py of the    *)
(* games feature): no row ever has negative points, whatever a day that two *)
(* submits overdraw at midnight leaves `award_points` to subtract from.     *)
THEOREM TypeCorrect == Spec => []TypeOK
<1>1. IInv => TypeOK
  BY DEF IInv
<1> QED  BY <1>1, Invariance, PTL

LEMMA LimitsFollow == ASSUME IInv PROVE DailyLimits
BY DEF IInv, DailyLimits, Earned, Guests

(* However many submits of a player overlap, over however many days, the    *)
(* points of a round stay within the cap of its engine (`award_points`      *)
(* under `_serialize_daily_writes`) and it holds no more taste plays than   *)
(* the engine allows (`_submit_replayable`).                                *)
THEOREM DailyLimitsHold == Spec => []DailyLimits
<1>1. IInv => DailyLimits
  BY LimitsFollow
<1> QED  BY <1>1, Invariance, PTL

LEMMA OneBoardFollows == ASSUME IInv PROVE OneBoard
<1> SUFFICES ASSUME single, NEW d \in Day
             PROVE  Cardinality(Plays(d)) <= 1 /\ SumFunctionOnSet(Guesses, Plays(d)) = accepted[d]
  BY DEF OneBoard, single
<1>1. CASE Plays(d) = {}
  BY <1>1, FS_EmptySet, SumOfNothing DEF IInv, BoardsOK
<1>2. CASE Plays(d) # {}
  <2>1. PICK i \in Plays(d) : TRUE
    BY <1>2
  <2>2. Plays(d) = {i} /\ i \in DOMAIN attempt
    BY LatestBoard
  <2>3. Guesses[i] = attempt[i].guesses /\ attempt[i].guesses \in Nat /\ attempt[i].round = d
    BY <2>1, <2>2, Rows DEF IInv, Guesses, Plays
  <2>4. Guesses[i] = accepted[d]
    BY <2>2, <2>3 DEF IInv, BoardsOK
  <2>5. Cardinality({i}) = 1 /\ SumFunctionOnSet(Guesses, {i}) = Guesses[i]
    BY <2>3, FS_Singleton, SumOfOne
  <2> QED  BY <2>2, <2>4, <2>5
<1> QED  BY <1>1, <1>2

(* Two surfaces, one board: a round of Codle has one attempt, which holds   *)
(* every guess the round has accepted; none is lost to a concurrent update  *)
(* and none is counted twice (`_submit_single`).                            *)
THEOREM OneBoardHolds == Spec => []OneBoard
<1>1. IInv => OneBoard
  BY OneBoardFollows
<1> QED  BY <1>1, Invariance, PTL

LEMMA StepIsFinal ==
  ASSUME IInv, [Next]_vars, NEW i \in DOMAIN attempt, attempt[i].finished
  PROVE  i \in DOMAIN attempt' /\ attempt'[i] = attempt[i]
<1>1. CASE \E r \in Request : Write(r)
  <2>1. PICK r \in Request : Write(r)
    BY <1>1
  <2>2. PICK j : Written(r, j)
    BY <2>1, WriteWrites
  <2> QED  BY <2>2 DEF Written
<1>2. CASE UNCHANGED attempt
  BY <1>2
<1>3. ASSUME NEW r \in Request, Step(r)
      PROVE  Write(r) \/ UNCHANGED attempt
  BY <1>3 DEF Step, tables, FindPlayer, InsertPlayer, ReadMember, FindRound, InsertRound, Lock,
              ContinueAttempt, NewAttempt, Award
<1>4. ASSUME ~ \E r \in Request : Step(r)
      PROVE  UNCHANGED attempt
  BY <1>4 DEF Next, vars, tables, Submit, RefuseSession, Abort, Midnight, RosterChanges
<1> QED  BY <1>1, <1>2, <1>3, <1>4

(* A finished board and its points never change again, whichever submit had *)
(* read it while it was open (`_submit_single`: the lock is taken before    *)
(* the board is read, and kept to the commit).                              *)
THEOREM FinishedStays == Spec => FinishedIsFinal
<1>1. IInv /\ [Next]_vars
        => [\A i \in DOMAIN attempt :
              attempt[i].finished => i \in DOMAIN attempt' /\ attempt'[i] = attempt[i]]_vars
  BY StepIsFinal
<1> QED  BY <1>1, Invariance, PTL DEF Spec, FinishedIsFinal

=============================================================================
