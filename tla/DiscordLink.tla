---------------------------- MODULE DiscordLink -----------------------------
(* The link between a Discord user and a portal account, which lets both    *)
(* play for one ledger of points: app/features/game_link/service.py, called *)
(* by the bot's routes and by the slash commands of app/features/discord.   *)
(* A link code is an HMAC of the account, so that it names the account and  *)
(* never expires: the code of an account is the account.                    *)
EXTENDS Integers, FiniteSets

CONSTANTS
  Account, DiscordUser, Request, Nil,
  CLAIMS        \* bound of the model

LinkAssumption == Nil \notin Account \cup DiscordUser /\ CLAIMS \in Nat

VARIABLES
  players,      \* the accounts with a row in game_player
  link,         \* game_account_link: the account of a Discord user
  claimed,      \* history: the account of the last claim that was answered
  raced,        \* history: the users two claims of whom were at work together
  claims,       \* history
  req

vars == <<players, link, claimed, raced, claims, req>>

Idle == [phase |-> "idle", user |-> Nil, account |-> Nil, found |-> Nil]

Init ==
  /\ players = {}
  /\ link = [u \in DiscordUser |-> Nil]
  /\ claimed = link /\ raced = {} /\ claims = 0
  /\ req = [r \in Request |-> Idle]

At(r, phase) == req[r].phase = phase

Leave(r) == req' = [req EXCEPT ![r] = Idle]

-----------------------------------------------------------------------------
(* POST /game-link/start and every play from the portal: `upsert_player`.   *)
Start(r, a) ==
  /\ At(r, "idle")
  /\ a \notin players
  /\ req' = [req EXCEPT ![r] = [Idle EXCEPT !.phase = "player", !.account = a]]
  /\ UNCHANGED <<players, link, claimed, raced, claims>>

(* account_id is unique: the loser of a race is an error.                   *)
InsertPlayer(r) ==
  /\ At(r, "player")
  /\ players' = players \cup {req[r].account}
  /\ Leave(r)
  /\ UNCHANGED <<link, claimed, raced, claims>>

(* POST /game-link/claim and /link: `link_discord`.  A code of an account   *)
(* that is no player matches nothing.                                       *)
Claim(r, u, a) ==
  /\ At(r, "idle") /\ claims < CLAIMS
  /\ a \in players
  /\ claims' = claims + 1
  /\ req' = [req EXCEPT ![r] = [Idle EXCEPT !.phase = "find", !.user = u, !.account = a]]
  /\ raced' = IF \E q \in Request : req[q].user = u THEN raced \cup {u} ELSE raced
  /\ UNCHANGED <<players, link, claimed>>

FindLink(r) ==
  /\ At(r, "find")
  /\ req' = [req EXCEPT ![r].phase = "commit", ![r].found = link[req[r].user]]
  /\ UNCHANGED <<players, link, claimed, raced, claims>>

Answer(r) ==
  /\ claimed' = [claimed EXCEPT ![req[r].user] = req[r].account]
  /\ Leave(r)

(* Faulty form: a Discord user keeps its first account.                     *)
CommitLinkFirst(r) ==
  /\ At(r, "commit")
  /\ link' = [link EXCEPT ![req[r].user] = IF @ = Nil THEN req[r].account ELSE @]
  /\ Answer(r)
  /\ UNCHANGED <<players, raced, claims>>

(* A missing link is inserted, and discord_user_id is unique: the loser is  *)
(* an error.  A link to another account is bound again.                     *)
CommitLink(r) ==
  LET u == req[r].user IN
  /\ At(r, "commit")
  /\ req[r].found = Nil => link[u] = Nil
  /\ link' = [link EXCEPT ![u] = IF req[r].found = req[r].account THEN @ ELSE req[r].account]
  /\ Answer(r)
  /\ UNCHANGED <<players, raced, claims>>

(* The loser's error, or the handler dies before its commit.                *)
Fail(r) ==
  /\ ~ At(r, "idle")
  /\ Leave(r)
  /\ UNCHANGED <<players, link, claimed, raced, claims>>

Next ==
  \E r \in Request :
    \/ \E a \in Account : Start(r, a) \/ \E u \in DiscordUser : Claim(r, u, a)
    \/ InsertPlayer(r) \/ FindLink(r) \/ CommitLink(r) \/ Fail(r)

Spec == Init /\ [][Next]_vars

-----------------------------------------------------------------------------
(* Types, and a link leads to a player (its foreign key).                   *)
TypeOK ==
  /\ players \subseteq Account
  /\ \A u \in DiscordUser : link[u] \in players \cup {Nil}
  /\ raced \subseteq DiscordUser

(* A Discord play counts for the account whose code was claimed last (the   *)
(* play looks the link up, `_resolve_account`), however often a user moves  *)
(* between accounts and requests fail; only two claims of one user that     *)
(* overlap may both be answered although one of them holds.                 *)
LastClaimHolds == \A u \in DiscordUser \ raced : link[u] = claimed[u]

============================================================================
