---------------------------- MODULE MCGameLedger ----------------------------
(* Codle with two guesses, Flappy Duck with a cap of three points.          *)
EXTENDS GameLedger, TLC

CONSTANTS r1, r2

Codle == [single_attempt_per_round |-> TRUE, requires_session |-> FALSE,
          points_per_day_cap |-> 3, nonmember_round_play_cap |-> 1, max_guesses |-> 2]

FlappyDuck == [single_attempt_per_round |-> FALSE, requires_session |-> TRUE,
               points_per_day_cap |-> 3, nonmember_round_play_cap |-> 1, max_guesses |-> 1]

Games == {Codle, FlappyDuck}

Submissions == {[valid |-> TRUE, solved |-> TRUE, score |-> 2],
                [valid |-> TRUE, solved |-> FALSE, score |-> 1],
                [valid |-> FALSE, solved |-> FALSE, score |-> 0]}

============================================================================
