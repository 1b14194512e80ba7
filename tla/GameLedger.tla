----------------------------- MODULE GameLedger -----------------------------
(* The points ledger of one player in one game: `submit_attempt` of         *)
(* app/features/games/service.py with the daily cap of scoring.py and the   *)
(* player row of game_link/service.py.  Nothing is shared between players   *)
(* or games: every query and the lock are keyed to the pair.                *)
(*                                                                          *)
(* A submit interleaves with the others at its statements.  It holds the    *)
(* advisory lock of its day from `_serialize_daily_writes` to its commit or *)
(* rollback; its day is that of the moment it arrived.                      *)
EXTENDS Integers, Sequences, FiniteSetsExt, Functions

CONSTANTS
  Request, Nil,
  Submission,                  \* what players send: [valid, solved, score]
  Engine,                      \* the games, by what their engines declare
  MaxDay,                      \* bound of the model: the days it runs through
  MAX_ATTEMPTS                 \* bound of the model: plays that may arrive

ASSUME NilAssumption == Nil \notin Request

ASSUME SubmissionAssumption ==
  Submission \subseteq [valid : BOOLEAN, solved : BOOLEAN, score : Nat]

ASSUME EngineAssumption ==
  Engine \subseteq [single_attempt_per_round : BOOLEAN, requires_session : BOOLEAN,
                    points_per_day_cap : Nat, nonmember_round_play_cap : Nat \ {0},
                    max_guesses : Nat \ {0}]

ASSUME BoundAssumption == MaxDay \in Nat /\ MAX_ATTEMPTS \in Nat

Day == 0 .. MaxDay

VARIABLES
  game,       \* the engine of the game, which does not change
  today,      \* the UTC day
  member,     \* the player is on the current roster
  player,     \* the game_player row is there
  round,      \* the days whose game_round row is there
  attempt,    \* the game_attempt rows, in id order
  holder,     \* who holds the advisory lock of a day
  arrived,    \* history: plays that arrived
  accepted,   \* history: plays a round has accepted
  req

vars == <<game, today, member, player, round, attempt, holder, arrived, accepted, req>>
tables == <<member, player, round, attempt, accepted>>
clock == <<game, today, arrived>>

(* `played` is the day of played_at, set when the row is inserted.          *)
Attempt == [round : Day, played : Day, guesses : Nat, finished : BOOLEAN,
            points : Nat, is_member_play : BOOLEAN]

Phase == {"idle", "player", "player_insert", "member", "round", "round_insert", "lock",
          "play", "award", "write"}

(* `row` is the attempt that is continued, 0 for a new one.                 *)
Local == [phase : Phase, day : Day, submission : Submission \cup {Nil}, is_member : BOOLEAN,
          row : Nat, guesses : Nat, finished : BOOLEAN, points : Nat]

Idle == [phase |-> "idle", day |-> 0, submission |-> Nil, is_member |-> FALSE,
         row |-> 0, guesses |-> 0, finished |-> FALSE, points |-> 0]

Init ==
  /\ game \in Engine
  /\ today = 0
  /\ member \in BOOLEAN
  /\ player = FALSE
  /\ round = {}
  /\ attempt = <<>>
  /\ holder = [d \in Day |-> Nil]
  /\ arrived = 0
  /\ accepted = [d \in Day |-> 0]
  /\ req = [r \in Request |-> Idle]

At(r, phase) == req[r].phase = phase

Go(r, phase) == req' = [req EXCEPT ![r].phase = phase]

(* The answer is sent and the session closed: the advisory lock goes.       *)
Release(r) == holder' = [d \in Day |-> IF holder[d] = r THEN Nil ELSE holder[d]]

End(r) == req' = [req EXCEPT ![r] = Idle] /\ Release(r)

Plays(d) == {i \in DOMAIN attempt : attempt[i].round = d}

Points == [i \in DOMAIN attempt |-> attempt[i].points]

(* `points_today`: no upper bound, a later day counts as well.              *)
PointsSince(d) == SumFunctionOnSet(Points, {i \in DOMAIN attempt : attempt[i].played >= d})

(* `raw_to_points` of the two engines.                                      *)
BasePoints(submission, guesses) ==
  IF ~ game.single_attempt_per_round THEN submission.score
  ELSE IF submission.solved THEN game.max_guesses - guesses + 1 ELSE 0

(* Faulty form: the remainder of an overdrawn day may be negative.          *)
ClampNoFloor(base, already) ==
  IF base <= game.points_per_day_cap - already THEN base ELSE game.points_per_day_cap - already

(* The clamp of `award_points`.                                             *)
Clamp(base, already) ==
  IF already >= game.points_per_day_cap THEN 0
  ELSE IF base <= game.points_per_day_cap - already THEN base ELSE game.points_per_day_cap - already

-----------------------------------------------------------------------------
Submit(r, s) ==
  /\ At(r, "idle")
  /\ arrived < MAX_ATTEMPTS
  /\ arrived' = arrived + 1
  /\ req' = [req EXCEPT ![r] = [Idle EXCEPT !.phase = "player", !.day = today, !.submission = s]]
  /\ UNCHANGED <<game, today, tables, holder>>

(* `upsert_player`: the loser of a race for the row gets an unhandled       *)
(* IntegrityError, a 500.                                                   *)
FindPlayer(r) ==
  /\ At(r, "player")
  /\ Go(r, IF player THEN "member" ELSE "player_insert")
  /\ UNCHANGED <<clock, tables, holder>>

InsertPlayer(r) ==
  /\ At(r, "player_insert")
  /\ IF player THEN End(r) ELSE Go(r, "member") /\ UNCHANGED holder
  /\ player' = TRUE
  /\ UNCHANGED <<clock, member, round, attempt, accepted>>

(* `is_current_member`.                                                     *)
ReadMember(r) ==
  /\ At(r, "member")
  /\ req' = [req EXCEPT ![r].phase = "round", ![r].is_member = member]
  /\ UNCHANGED <<clock, tables, holder>>

(* `get_or_create_today_round`, of the day the submit arrived; the loser of *)
(* a race for the row takes the winner's.                                   *)
FindRound(r) ==
  /\ At(r, "round")
  /\ Go(r, IF req[r].day \in round THEN "lock" ELSE "round_insert")
  /\ UNCHANGED <<clock, tables, holder>>

InsertRound(r) ==
  /\ At(r, "round_insert")
  /\ round' = round \cup {req[r].day}
  /\ Go(r, "lock")
  /\ UNCHANGED <<clock, member, player, attempt, accepted, holder>>

(* `_verify_play_session`: a token that is missing, expired or another      *)
(* day's, or a run longer than the time since it was issued.                *)
RefuseSession(r) ==
  /\ At(r, "lock")
  /\ game.requires_session
  /\ End(r)
  /\ UNCHANGED <<clock, tables>>

(* Faulty form: no lock, as on SQLite.                                      *)
LockNothing(r) ==
  /\ At(r, "lock")
  /\ Go(r, "play")
  /\ UNCHANGED <<clock, tables, holder>>

(* pg_advisory_xact_lock on the player, the game and the day.               *)
Lock(r) ==
  /\ At(r, "lock")
  /\ holder[req[r].day] = Nil
  /\ holder' = [holder EXCEPT ![req[r].day] = r]
  /\ Go(r, "play")
  /\ UNCHANGED <<clock, tables>>

-----------------------------------------------------------------------------
(* Faulty form: a finished round is played on.                              *)
ContinueFinished(r) ==
  LET s == req[r].submission
      latest == IF Plays(req[r].day) = {} THEN 0 ELSE Max(Plays(req[r].day))
      guesses == 1 + IF latest = 0 THEN 0 ELSE attempt[latest].guesses
      finished == s.solved \/ guesses >= game.max_guesses
  IN
  /\ At(r, "play")
  /\ game.single_attempt_per_round
  /\ IF ~ s.valid
       THEN End(r)
       ELSE /\ req' = [req EXCEPT ![r].phase = IF finished THEN "award" ELSE "write",
                                  ![r].row = latest, ![r].guesses = guesses, ![r].finished = finished]
            /\ UNCHANGED holder
  /\ UNCHANGED <<clock, tables>>

(* `_submit_single` up to its points: 409 on a finished round, 422 on a bad *)
(* guess, else the latest attempt of the round goes on.                     *)
ContinueAttempt(r) ==
  LET s == req[r].submission
      latest == IF Plays(req[r].day) = {} THEN 0 ELSE Max(Plays(req[r].day))
      guesses == 1 + IF latest = 0 THEN 0 ELSE attempt[latest].guesses
      finished == s.solved \/ guesses >= game.max_guesses
  IN
  /\ At(r, "play")
  /\ game.single_attempt_per_round
  /\ IF ~ s.valid \/ (latest # 0 /\ attempt[latest].finished)
       THEN End(r)
       ELSE /\ req' = [req EXCEPT ![r].phase = IF finished THEN "award" ELSE "write",
                                  ![r].row = latest, ![r].guesses = guesses, ![r].finished = finished]
            /\ UNCHANGED holder
  /\ UNCHANGED <<clock, tables>>

(* Faulty form: the refused play keeps its transaction open.                *)
NewAttemptKeepsLock(r) ==
  LET refused == ~ req[r].submission.valid
                 \/ (~ req[r].is_member /\ Cardinality(Plays(req[r].day)) >= game.nonmember_round_play_cap)
  IN
  /\ At(r, "play")
  /\ ~ game.single_attempt_per_round
  /\ req' = [req EXCEPT ![r] = IF refused THEN Idle
                               ELSE [@ EXCEPT !.phase = "award", !.finished = TRUE]]
  /\ UNCHANGED <<clock, tables, holder>>

(* `_submit_replayable` up to its points: 403 on a non-member's next play.  *)
NewAttempt(r) ==
  /\ At(r, "play")
  /\ ~ game.single_attempt_per_round
  /\ IF \/ ~ req[r].submission.valid
        \/ ~ req[r].is_member /\ Cardinality(Plays(req[r].day)) >= game.nonmember_round_play_cap
       THEN End(r)
       ELSE /\ req' = [req EXCEPT ![r].phase = "award", ![r].finished = TRUE]
            /\ UNCHANGED holder
  /\ UNCHANGED <<clock, tables>>

(* `award_points`.                                                          *)
Award(r) ==
  /\ At(r, "award")
  /\ req' = [req EXCEPT ![r].phase = "write",
                        ![r].points = Clamp(BasePoints(req[r].submission, req[r].guesses),
                                            PointsSince(req[r].day))]
  /\ UNCHANGED <<clock, tables, holder>>

(* The INSERT or UPDATE and its commit.                                     *)
Write(r) ==
  LET l == req[r] IN
  /\ At(r, "write")
  /\ attempt' = IF l.row = 0
       THEN Append(attempt, [round |-> l.day, played |-> today, guesses |-> l.guesses,
                             finished |-> l.finished, points |-> l.points,
                             is_member_play |-> l.is_member])
       ELSE [attempt EXCEPT ![l.row].guesses = l.guesses, ![l.row].finished = l.finished,
                            ![l.row].points = l.points, ![l.row].is_member_play = l.is_member]
  /\ accepted' = [accepted EXCEPT ![l.day] = @ + 1]
  /\ End(r)
  /\ UNCHANGED <<clock, member, player, round>>

-----------------------------------------------------------------------------
(* The worker dies, or a statement fails: the transaction is rolled back.   *)
Abort(r) ==
  /\ ~ At(r, "idle")
  /\ End(r)
  /\ UNCHANGED <<clock, tables>>

Midnight ==
  /\ today < MaxDay
  /\ today' = today + 1
  /\ UNCHANGED <<game, tables, holder, arrived, req>>

(* The weekly roster import.                                                *)
RosterChanges ==
  /\ member' = ~ member
  /\ UNCHANGED <<clock, player, round, attempt, holder, accepted, req>>

Step(r) ==
  \/ FindPlayer(r) \/ InsertPlayer(r) \/ ReadMember(r)
  \/ FindRound(r) \/ InsertRound(r)
  \/ Lock(r)
  \/ ContinueAttempt(r) \/ NewAttempt(r) \/ Award(r) \/ Write(r)

Next ==
  \/ \E r \in Request, s \in Submission : Submit(r, s)
  \/ \E r \in Request : Step(r) \/ RefuseSession(r) \/ Abort(r)
  \/ Midnight
  \/ RosterChanges

Spec == Init /\ [][Next]_vars

(* A submit that is not killed goes on, and none counts on being refused;   *)
(* Postgres queues the waiters of an advisory lock.                         *)
FairSpec == Spec /\ \A r \in Request : SF_vars(Step(r))

-----------------------------------------------------------------------------
(* Types; the points of a row are never negative, though a day can be       *)
(* overdrawn when two submits meet at midnight (`award_points`).            *)
TypeOK ==
  /\ game \in Engine
  /\ today \in Day
  /\ member \in BOOLEAN
  /\ player \in BOOLEAN
  /\ round \subseteq Day
  /\ attempt \in Seq(Attempt)
  /\ holder \in [Day -> Request \cup {Nil}]
  /\ arrived \in Nat
  /\ accepted \in [Day -> Nat]
  /\ req \in [Request -> Local]

Guesses == [i \in DOMAIN attempt |-> attempt[i].guesses]

(* However the submits of one day overlap, they earn at most the cap        *)
(* (`award_points` under the lock of `_serialize_daily_writes`), and a      *)
(* round holds at most the taste play of somebody who is not a member, even *)
(* when the roster changes between plays (`_submit_replayable`).            *)
DailyLimits ==
  \A d \in Day :
    /\ SumFunctionOnSet(Points, Plays(d)) <= game.points_per_day_cap
    /\ Cardinality({i \in Plays(d) : ~ attempt[i].is_member_play}) <= game.nonmember_round_play_cap

(* Codle from two surfaces is one board: a round has one attempt, and it    *)
(* holds every guess that was accepted (`_submit_single`).                  *)
OneBoard ==
  game.single_attempt_per_round => \A d \in Day :
    /\ Cardinality(Plays(d)) <= 1
    /\ SumFunctionOnSet(Guesses, Plays(d)) = accepted[d]

(* A finished board, and the points it earned, never change again, whoever  *)
(* had read it before it was finished.                                      *)
FinishedIsFinal ==
  [][\A i \in DOMAIN attempt :
       attempt[i].finished => i \in DOMAIN attempt' /\ attempt'[i] = attempt[i]]_vars

(* Every submit gets its answer: nobody is left waiting behind a lock.      *)
SubmitsEnd == \A r \in Request : ~ At(r, "idle") ~> At(r, "idle")

============================================================================
