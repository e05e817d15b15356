------------------------------ MODULE ElementGift ------------------------------
(* `gift up` and `gift reset` (commands/element_gift.py): a plan priced against *)
(* one reading of the game, carried out hero by hero in batches any call of     *)
(* which may fail, and a report that reads the game again.                      *)
EXTENDS FiniteSetsExt, Naturals, GameCall

CONSTANTS Heroes,    \* heroes by power: a greater number is a stronger hero
          Weak,      \* those whose power is readable and at most max_power
          MaxLevel,  \* GIFT_MAX_LEVEL; a level costs one coin
          MaxCoins,  \* most coins at the start
          Limit,     \* --limit
          Others     \* how often another session of the player interferes

VARIABLES pc,    \* "read", "work", "report", "done"
          game,  \* the server: gift levels, coins; moves left to the other session
          run    \* GiftRunResult, the plan, and what main makes of it

vars == <<pc, game, run>>

-------------------------------------------------------------------------------
(* The game *)

Room(g, h) == Min({MaxLevel - g.level[h], g.coins})

Raise(g, h, k) == [g EXCEPT !.level[h] = @ + k, !.coins = @ - k]

Strip(g, h) == [g EXCEPT !.level[h] = 0, !.coins = @ + g.level[h]]

\* Another session spends coins, on a hero or on something else. It drops no gift.
Interfere == /\ game.others > 0 /\ game.coins > 0 /\ pc # "done"
             /\ \/ game' = [game EXCEPT !.others = @ - 1, !.coins = @ - 1]
                \/ \E h \in Heroes : /\ run.mode = "up" /\ Room(game, h) > 0
                                     /\ game' = [Raise(game, h, 1) EXCEPT !.others = @ - 1]
             /\ UNCHANGED <<pc, run>>

-------------------------------------------------------------------------------
(* Plans *)

StrongerIn(S, h) == {k \in S : k >= h}

Bill(level, S) == MapThenSumSet(LAMBDA h : MaxLevel - level[h], S)

\* Strongest first, until the coins or the limit end: never a thin spread.
PlanUp(level, coins) ==
    LET below == {h \in Heroes : level[h] < MaxLevel} IN
    {h \in below : /\ Bill(level, StrongerIn(below, h)) <= coins
                   /\ Cardinality(StrongerIn(below, h)) <= Limit}

PlanReset(level) ==
    LET gifted == {h \in Weak : level[h] > 0} IN
    {h \in gifted : Cardinality(StrongerIn(gifted, h)) <= Limit}

-------------------------------------------------------------------------------
Blank(mode, dry) ==
    [mode |-> mode, dry |-> dry, plan |-> {}, todo |-> {}, read |-> [h \in Heroes |-> 0],
     balance |-> 0, changed |-> {}, failed |-> {}, error |-> FALSE, auth |-> FALSE,
     priced |-> 0, coins |-> 0, moved |-> 0]

Init == /\ pc = "read"
        /\ game \in [level : [Heroes -> 0..MaxLevel], coins : 0..MaxCoins, others : {Others}]
        /\ \E mode \in {"up", "reset"}, dry \in BOOLEAN : run = Blank(mode, dry)

\* fetch_state reads heroes and coins in one request.
Read == /\ pc = "read"
        /\ LET plan == IF run.mode = "up" THEN PlanUp(game.level, game.coins)
                                          ELSE PlanReset(game.level)
           IN /\ run' = [run EXCEPT !.plan = plan, !.todo = plan, !.read = game.level,
                                    !.balance = game.coins]
              /\ pc' = IF plan = {} \/ run.dry THEN "done" ELSE "work"
        /\ UNCHANGED game

ReadFails == /\ pc = "read" /\ Flaky
             /\ \E auth \in BOOLEAN : run' = [run EXCEPT !.error = ~auth, !.auth = auth]
             /\ pc' = "done"
             /\ UNCHANGED game

\* The answer to the question is no, or there is nobody to answer it.
Declined == /\ pc = "work" /\ run.todo = run.plan
            /\ run' = [run EXCEPT !.error = TRUE]
            /\ pc' = "done"
            /\ UNCHANGED game

-------------------------------------------------------------------------------
(* One hero of the plan *)

Turn(mode, h) == /\ pc = "work" /\ run.mode = mode
                 /\ run.todo # {} /\ h = Max(run.todo)

\* moved is what this run's calls really did to the coins.
Moved(g) == IF g.coins > game.coins THEN g.coins - game.coins ELSE game.coins - g.coins

Settle(h, g, priced, refund) ==
    /\ game' = g
    /\ run' = [run EXCEPT !.todo = @ \ {h}, !.changed = @ \union {h},
                          !.priced = @ + priced, !.coins = @ + refund, !.moved = @ + Moved(g)]
    /\ UNCHANGED pc

\* why: "hero" goes on with the next one; "stop" and "auth" end the loop, "auth" and any
\* stop of `up` with an error.
Fail(h, g, why) ==
    /\ game' = g
    /\ run' = [run EXCEPT !.todo = @ \ {h}, !.failed = @ \union {h}, !.moved = @ + Moved(g),
                          !.auth = why = "auth", !.error = why # "hero"]
    /\ pc' = IF why = "hero" THEN "work" ELSE "report"

\* As many calls as levels were missing when the plan was made.
Asked(h) == MaxLevel - run.read[h]

LevelUps(g, h) == Raise(g, h, Min({Asked(h), Room(g, h)}))

HeroMaxed(h) == /\ Turn("up", h)
                /\ \E g \in Arrivals(LAMBDA x : LevelUps(x, h), game) :
                     /\ Room(g, h) >= Asked(h)
                     /\ Settle(h, Raise(g, h, Asked(h)), Asked(h), 0)

\* The batch stops short: of coins, of levels, or because a call is refused. The first
\* error decides: NotAvailable is the hero's own, every other name stops the run.
HeroPartly(h) ==
    /\ Turn("up", h)
    /\ \E g \in Arrivals(LAMBDA x : LevelUps(x, h), game) : \E k \in 0..Room(g, h) :
         /\ k < Asked(h)
         /\ \E why \in {"hero", "stop", "auth"} :
              /\ Flaky \/ (k = Room(g, h) /\ why # "auth")
              /\ Fail(h, Raise(g, h, k), why)

HeroLost(h) == /\ Turn("up", h)
               /\ \E g \in Losses(LAMBDA x : LevelUps(x, h), game) : Fail(h, g, "stop")

GiftDropped(h) == /\ Turn("reset", h)
                  /\ game.level[h] > 0
                  /\ \E read \in BOOLEAN :  \* can the refund be read?
                       /\ read \/ Flaky
                       /\ Settle(h, Strip(game, h), 0, IF read THEN game.level[h] ELSE 0)

\* Refused, or unanswered: a drop costs nothing, so the others go on.
DropFails(h) == /\ Turn("reset", h) /\ Flaky
                /\ \E g \in Losses(LAMBDA x : Strip(x, h), game) : Fail(h, g, "hero")

DropUnauthorized(h) == /\ Turn("reset", h) /\ Flaky
                       /\ \E g \in Arrivals(LAMBDA x : Strip(x, h), game) :
                            /\ game' = g
                            /\ run' = [run EXCEPT !.failed = @ \union {h}, !.todo = @ \ {h},
                                                  !.auth = TRUE, !.moved = @ + Moved(g)]
                       /\ pc' = "report"

-------------------------------------------------------------------------------
Finished == pc = "report" \/ (pc = "work" /\ run.todo = {})

\* `up` reports the balance's fall, `reset` the refunds it was told of.
Report == /\ Finished
          /\ run' = IF run.mode = "reset" THEN run
                    ELSE [run EXCEPT !.coins = IF game.coins < run.balance
                                               THEN run.balance - game.coins ELSE 0]
          /\ pc' = "done"
          /\ UNCHANGED game

ReportBlind == /\ Finished /\ (Flaky \/ run.auth)
               /\ run' = IF run.mode = "reset" THEN run ELSE [run EXCEPT !.coins = run.priced]
               /\ pc' = "done"
               /\ UNCHANGED game

Next == \/ Interfere \/ Read \/ ReadFails \/ Declined \/ Report \/ ReportBlind
        \/ \E h \in Heroes : \/ HeroMaxed(h) \/ HeroPartly(h) \/ HeroLost(h)
                             \/ GiftDropped(h) \/ DropFails(h) \/ DropUnauthorized(h)

Spec == Init /\ [][Next]_vars

-------------------------------------------------------------------------------
GiftTypeOK ==
    /\ pc \in {"read", "work", "report", "done"}
    /\ game \in [level : [Heroes -> 0..MaxLevel], coins : Nat, others : 0..Others]
    /\ run \in [mode : {"up", "reset"}, dry : BOOLEAN, plan : SUBSET Heroes, todo : SUBSET Heroes,
                read : [Heroes -> 0..MaxLevel], balance : Nat, changed : SUBSET Heroes,
                failed : SUBSET Heroes, error : BOOLEAN, auth : BOOLEAN, priced : Nat,
                coins : Nat, moved : Nat]

\* What the run had planned: `up` maxes a hero, `reset` strips it.
PlanCarriedOut ==
    \A h \in run.plan : game.level[h] = IF run.mode = "up" THEN MaxLevel ELSE 0

\* The coins of a report that could not read the game again, and those of every reset, are
\* no more than the run's calls really moved (spent_estimate, _drop_refund).
ReportIsFloor == run.priced <= run.moved /\ (run.mode = "reset" => run.coins <= run.moved)
===============================================================================
