---------------------------- MODULE MonthlyDraw -----------------------------
(* The monthly draw: app/features/games/draws.py behind GET /draw and       *)
(* GET /cron/close-draw.  Two close requests can overlap: the cron of       *)
(* vercel.json, the cron container of the self-hosted stack, and an         *)
(* operator who names a period.  `close_cycle` commits twice and takes no   *)
(* lock.                                                                    *)
EXTENDS Integers, FiniteSetsExt

CONSTANTS
  Closer,
  N,            \* the players, by their ids
  MaxMonth, MAX_PLAYS      \* bounds of the model

ASSUME DrawAssumption ==
  N \in Nat /\ MaxMonth \in Nat /\ MAX_PLAYS \in Nat

Player == 1 .. N
NoPlayer == 0

Month == 0 .. MaxMonth
Period == 0 .. MaxMonth + 1

VARIABLES
  month,      \* the UTC month
  points,     \* committed points by month, player and kind of play
  flying,     \* the play a player has inserted and not committed
  plays,      \* history: plays so far
  cycle,      \* the draw_cycle rows: "none", "open" or "closed"
  winner,     \* their winner_player_id
  unsettled,  \* history: the months whose close was forced while they were
              \* running, or that ended with a play uncommitted
  close       \* the close requests

vars == <<month, points, flying, plays, cycle, winner, unsettled, close>>
ledger == <<month, points, flying, plays>>

NoPlay == [month |-> 0, kind |-> "none"]

Phase == {"idle", "cycle", "insert", "standings", "close", "next", "next_insert"}

(* `seen`: the row was loaded by the first SELECT, so that later SELECTs    *)
(* return the same object as it was.  `loaded`: the winner in that object.  *)
Local == [phase : Phase, period : Month, seen : BOOLEAN,
          loaded : Player \cup {NoPlayer}, top : Player \cup {NoPlayer}]

Idle == [phase |-> "idle", period |-> 0, seen |-> FALSE, loaded |-> NoPlayer, top |-> NoPlayer]

Init ==
  /\ month = 0
  /\ points = [m \in Month |-> [p \in Player |-> [member |-> 0, guest |-> 0]]]
  /\ flying = [p \in Player |-> NoPlay]
  /\ plays = 0
  /\ cycle = [m \in Period |-> "none"]
  /\ winner = [m \in Period |-> NoPlayer]
  /\ unsettled = {}
  /\ close = [c \in Closer |-> Idle]

At(c, phase) == close[c].phase = phase

Go(c, phase) == close' = [close EXCEPT ![c].phase = phase]

End(c) == close' = [close EXCEPT ![c] = Idle]

-----------------------------------------------------------------------------
(* A play worth a point; played_at is set when the row is inserted.         *)
Play(p, kind) ==
  /\ flying[p] = NoPlay
  /\ plays < MAX_PLAYS
  /\ plays' = plays + 1
  /\ flying' = [flying EXCEPT ![p] = [month |-> month, kind |-> kind]]
  /\ UNCHANGED <<month, points, cycle, winner, unsettled, close>>

Commit(p) ==
  LET play == flying[p] IN
  /\ play # NoPlay
  /\ points' = [points EXCEPT ![play.month][p][play.kind] = @ + 1]
  /\ flying' = [flying EXCEPT ![p] = NoPlay]
  /\ UNCHANGED <<month, plays, cycle, winner, unsettled, close>>

NewMonth ==
  /\ month < MaxMonth
  /\ month' = month + 1
  /\ unsettled' = unsettled \cup {flying[p].month : p \in {q \in Player : flying[q] # NoPlay}}
  /\ UNCHANGED <<points, flying, plays, cycle, winner, close>>

-----------------------------------------------------------------------------
(* Faulty form: every play counts.                                          *)
TopOfAll(m) ==
  LET total(p) == points[m][p].member + points[m][p].guest
      ranked == {p \in Player : total(p) > 0}
  IN IF ranked = {} THEN NoPlayer
     ELSE Min({p \in ranked : \A q \in ranked : total(q) <= total(p)})

(* `roll_up_cycle`: the most member points, the lower id on a tie.          *)
Top(m) ==
  LET ranked == {p \in Player : points[m][p].member > 0}
  IN IF ranked = {} THEN NoPlayer
     ELSE Min({p \in ranked : \A q \in ranked : points[m][q].member <= points[m][p].member})

(* GET /draw opens the cycle it is asked for; the loser of a race is a 500. *)
GetDraw(m) ==
  /\ cycle[m] = "none"
  /\ cycle' = [cycle EXCEPT ![m] = "open"]
  /\ UNCHANGED <<ledger, winner, unsettled, close>>

(* Faulty form: the month that is still running may be closed.              *)
MayCloseRunning(m, force) == force \/ month >= m

(* The clock check of `close_cycle`.                                        *)
MayClose(m, force) == force \/ month > m

(* GET /cron/close-draw up to the first SELECT: a closed cycle is returned  *)
(* as it is, a month that still runs is a 409.                              *)
CloseDraw(c, m, force) ==
  /\ At(c, "idle")
  /\ IF cycle[m] = "closed"
       THEN UNCHANGED <<unsettled, close>>
       ELSE /\ MayClose(m, force)
            /\ close' = [close EXCEPT ![c] = [Idle EXCEPT !.phase = "cycle", !.period = m,
                                                          !.seen = cycle[m] = "open"]]
            /\ unsettled' = IF force /\ month <= m THEN unsettled \cup {m} ELSE unsettled
  /\ UNCHANGED <<ledger, cycle, winner>>

(* `get_or_create_open_cycle`: it takes whatever row is there, open or not. *)
FindCycle(c) ==
  LET l == close[c] IN
  /\ At(c, "cycle")
  /\ IF cycle[l.period] = "none"
       THEN Go(c, "insert")
       ELSE close' = [close EXCEPT ![c].phase = "standings",
                                   ![c].loaded = IF l.seen THEN NoPlayer ELSE winner[l.period]]
  /\ UNCHANGED <<ledger, cycle, winner, unsettled>>

(* The loser of the race gets an unhandled IntegrityError.                  *)
InsertCycle(c) ==
  LET m == close[c].period IN
  /\ At(c, "insert")
  /\ IF cycle[m] = "none"
       THEN cycle' = [cycle EXCEPT ![m] = "open"] /\ Go(c, "standings")
       ELSE UNCHANGED cycle /\ End(c)
  /\ UNCHANGED <<ledger, winner, unsettled>>

Standings(c) ==
  /\ At(c, "standings")
  /\ close' = [close EXCEPT ![c].phase = "close", ![c].top = Top(close[c].period)]
  /\ UNCHANGED <<ledger, cycle, winner, unsettled>>

(* Faulty form: the status is left as it was.                               *)
CloseKeepsStatus(c) ==
  LET l == close[c] IN
  /\ At(c, "close")
  /\ winner' = [winner EXCEPT ![l.period] = IF l.top = l.loaded THEN @ ELSE l.top]
  /\ Go(c, "next")
  /\ UNCHANGED <<ledger, cycle, unsettled>>

(* The UPDATE, of the columns that differ from what was loaded, and its     *)
(* commit.                                                                  *)
Close(c) ==
  LET l == close[c] IN
  /\ At(c, "close")
  /\ cycle' = [cycle EXCEPT ![l.period] = "closed"]
  /\ winner' = [winner EXCEPT ![l.period] = IF l.top = l.loaded THEN @ ELSE l.top]
  /\ Go(c, "next")
  /\ UNCHANGED <<ledger, unsettled>>

FindNext(c) ==
  /\ At(c, "next")
  /\ IF cycle[close[c].period + 1] = "none"
       THEN Go(c, "next_insert")
       ELSE End(c)
  /\ UNCHANGED <<ledger, cycle, winner, unsettled>>

InsertNext(c) ==
  LET m == close[c].period + 1 IN
  /\ At(c, "next_insert")
  /\ cycle' = [cycle EXCEPT ![m] = IF @ = "none" THEN "open" ELSE @]
  /\ End(c)
  /\ UNCHANGED <<ledger, winner, unsettled>>

(* The worker dies, or the function times out, between two statements.      *)
Die(c) ==
  /\ ~ At(c, "idle")
  /\ End(c)
  /\ UNCHANGED <<ledger, cycle, winner, unsettled>>

-----------------------------------------------------------------------------
Next ==
  \/ \E p \in Player, kind \in {"member", "guest"} : Play(p, kind)
  \/ \E p \in Player : Commit(p)
  \/ NewMonth
  \/ \E m \in Month : GetDraw(m)
  \/ \E c \in Closer, m \in Month, force \in BOOLEAN : CloseDraw(c, m, force)
  \/ \E c \in Closer :
       \/ FindCycle(c) \/ InsertCycle(c) \/ Standings(c) \/ Close(c)
       \/ FindNext(c) \/ InsertNext(c) \/ Die(c)

Spec == Init /\ [][Next]_vars

-----------------------------------------------------------------------------
(* Types; and only a closed cycle has a winner (`close_cycle` writes both   *)
(* in one UPDATE).                                                          *)
TypeOK ==
  /\ month \in Month
  /\ points \in [Month -> [Player -> [member : Nat, guest : Nat]]]
  /\ flying \in [Player -> {NoPlay} \cup [month : Month, kind : {"member", "guest"}]]
  /\ plays \in Nat
  /\ cycle \in [Period -> {"none", "open", "closed"}]
  /\ winner \in [Period -> Player \cup {NoPlayer}]
  /\ unsettled \subseteq Month
  /\ close \in [Closer -> Local]
  /\ \A m \in Period : winner[m] # NoPlayer => cycle[m] = "closed"

(* The prize goes to the player with the most member points of the whole    *)
(* month, and to nobody when there are none, whatever closes overlap and    *)
(* wherever one dies (`close_cycle`), if the month was settled.             *)
WinnerIsTop ==
  \A m \in Month \ unsettled : cycle[m] = "closed" =>
    LET earned(p) == IF p = NoPlayer THEN 0 ELSE points[m][p].member IN
    /\ \A p \in Player : earned(p) <= earned(winner[m])
    /\ winner[m] # NoPlayer => earned(winner[m]) > 0

(* "a cycle already closed is returned unchanged" (`close_cycle`): it stays *)
(* closed, and closes that overlap agree on the winner of a settled month.  *)
ClosedIsFinal ==
  [][\A m \in Period : cycle[m] = "closed" =>
       /\ cycle'[m] = "closed"
       /\ winner'[m] = winner[m] \/ m \in unsettled]_vars

============================================================================
