------------------------------- MODULE SeersGame -------------------------------
(* `seers-game` (commands/seers_game.py): games of a start, Rounds plays and a   *)
(* finish each. The server keeps the game, the process keeps a count of plays;   *)
(* either may be ahead of the other after a lost reply or a killed process.      *)
EXTENDS Naturals, GameCall

CONSTANTS Rounds,    \* ROUNDS_PER_GAME
          Coins,     \* games the player can pay for at most
          MaxGames,  \* --max-games; 0 for none
          OpenBeforeCoins,  \* does the server refuse a start for an open game first?
          Kills      \* how often a process is killed and started again

VARIABLES pc,    \* "look", "start", "play", "done", "killed"
          game,  \* the server: the open game, coins; history of what the run got from it
          run    \* SeersGameResult and the loop's locals

vars == <<pc, game, run>>

-------------------------------------------------------------------------------
(* The game. snap is collected_rewards: all rewards of the open game so far. opened and *)
(* earned count what the server did since the run began.                                *)

Opened(g) == IF g.active \/ g.coins = 0 THEN g
             ELSE [g EXCEPT !.active = TRUE, !.round = 1, !.snap = 0, !.coins = @ - 1,
                            !.opened = @ + 1]

\* One reward per round; which one depends on the pick.
Played(g) == IF ~g.active \/ g.round > Rounds THEN g
             ELSE [g EXCEPT !.round = @ + 1, !.snap = @ + 1, !.earned = @ + 1]

Closed(g) == IF ~g.active \/ g.round <= Rounds THEN g ELSE [g EXCEPT !.active = FALSE]

-------------------------------------------------------------------------------
Fresh == [left |-> 0, played |-> 0, failed |-> FALSE, raised |-> FALSE, rewards |-> 0, pending |-> 0]

Init == /\ pc = "look"
        /\ \E c \in 0..Coins, r \in 0..(Rounds + 1) :
             game = [active |-> r > 0, round |-> r, snap |-> IF r > 0 THEN r - 1 ELSE 0,
                     coins |-> c, opened |-> 0, earned |-> IF r > 0 THEN r - 1 ELSE 0,
                     kills |-> Kills]
        /\ run = Fresh

\* An open game is resumed where the server says it is.
Resume == /\ pc = "look" /\ game.active
          /\ run' = [run EXCEPT !.left = Rounds + 1 - game.round, !.pending = game.snap]
          /\ pc' = "play"
          /\ UNCHANGED game

MayStartOneMore(r) == MaxGames = 0 \/ r.played <= MaxGames

MayStart(r) == MaxGames = 0 \/ r.played < MaxGames

NothingOpen == /\ pc = "look" /\ ~game.active
               /\ pc' = "start"
               /\ UNCHANGED <<game, run>>

LookFails == /\ pc = "look" /\ Flaky
             /\ \E auth \in BOOLEAN : run' = [run EXCEPT !.failed = ~auth, !.raised = auth]
             /\ pc' = "done"
             /\ UNCHANGED game

Enough == /\ pc = "start" /\ ~MayStart(run)
          /\ pc' = "done"
          /\ UNCHANGED <<game, run>>

Start == /\ pc = "start" /\ MayStart(run)
         /\ ~game.active /\ game.coins > 0
         /\ game' = Opened(game)
         /\ run' = [run EXCEPT !.left = Rounds, !.pending = 0]
         /\ pc' = "play"

\* A lost start may have been carried out: then its retry finds the game open.
NotEnough(g) == g.coins = 0 /\ (OpenBeforeCoins => ~g.active)

\* NotEnough is the clean end of a run, every other refusal a failure.
StartRefused == /\ pc = "start" /\ MayStart(run)
                /\ \E g \in Arrivals(Opened, game) :
                     /\ Opened(g) = g \/ Flaky
                     /\ game' = g
                     /\ \/ NotEnough(g) /\ UNCHANGED run
                        \/ (Flaky \/ ~NotEnough(g)) /\ run' = [run EXCEPT !.failed = TRUE]
                /\ pc' = "done"

Play == /\ pc = "play" /\ run.left > 0
        /\ \E g \in Arrivals(Played, game) :
             /\ Played(g) # g
             /\ game' = Played(g)
             /\ run' = [run EXCEPT !.left = @ - 1, !.pending = Played(g).snap]
        /\ UNCHANGED pc

AllPlayed == pc = "play" /\ run.left = 0

\* The answer brings the last snapshot, the only one that is counted.
Finish == /\ AllPlayed
          /\ Closed(game) # game
          /\ game' = Closed(game)
          /\ run' = [run EXCEPT !.played = @ + 1, !.rewards = @ + game.snap]
          /\ pc' = "start"

\* An error ends the run with what the game was last known to have collected.
Refused == /\ pc = "play"
           /\ \E g \in IF run.left > 0 THEN Arrivals(Played, game) ELSE Arrivals(Closed, game) :
                /\ Flaky \/ (IF run.left > 0 THEN Played(g) = g ELSE Closed(g) = g)
                /\ game' = g
           /\ run' = [run EXCEPT !.failed = TRUE, !.rewards = @ + run.pending]
           /\ pc' = "done"

\* UNEXPECTED (SeersGameReadError) or HWAuthError: raised out of the command.
Raises == /\ pc \in {"start", "play"}
          /\ pc = "start" => MayStart(run)
          /\ game' \in IF pc = "start" THEN Losses(Opened, game)
                       ELSE IF run.left > 0 THEN Losses(Played, game)
                       ELSE Losses(Closed, game)
          /\ run' = [run EXCEPT !.raised = TRUE]
          /\ pc' = "done"

Killed == /\ pc # "killed" /\ game.kills > 0
          /\ game' = [game EXCEPT !.kills = @ - 1]
          /\ pc' = "killed"
          /\ UNCHANGED run

\* The next process looks at the server again; the histories start with it.
Rerun == /\ pc = "killed"
         /\ game' = [game EXCEPT !.opened = 0, !.earned = IF game.active THEN game.snap ELSE 0]
         /\ run' = Fresh
         /\ pc' = "look"

Next == \/ Resume \/ NothingOpen \/ LookFails \/ Enough \/ Start \/ StartRefused
        \/ Play \/ Finish \/ Refused \/ Raises \/ Killed \/ Rerun

Spec == Init /\ [][Next]_vars

-------------------------------------------------------------------------------
SeersTypeOK ==
    /\ pc \in {"look", "start", "play", "done", "killed"}
    /\ game \in [active : BOOLEAN, round : 0..(Rounds + 1), snap : 0..Rounds, coins : 0..Coins,
                 opened : 0..Coins, earned : Nat, kills : 0..Kills]
    /\ run \in [left : 0..Rounds, played : Nat, failed : BOOLEAN, raised : BOOLEAN,
                rewards : Nat, pending : 0..Rounds]

\* No retry of a lost start and no resumed game makes a run pay for more games than
\* --max-games allows.
PaidWithinLimit == MaxGames # 0 => game.opened <= MaxGames

\* Rewards are counted once per game although every answer repeats the earlier ones: the
\* sum is never more than the games of the run have collected (_merge_rewards).
RewardsCountedOnce == run.rewards <= game.earned
===============================================================================
