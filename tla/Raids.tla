--------------------------------- MODULE Raids ---------------------------------
(* Raids that spend stamina: `hero` (run_hero_raid, which may drink a potion and  *)
(* try again), `item` (run_item_raid, which repeats one mission until stamina     *)
(* ends) and `daily` (run_daily_raid: hero raids without potions, then item       *)
(* raids, then the shops of module Shops, of which only the start is kept here).  *)
EXTENDS FiniteSetsExt, Naturals, GameCall

CONSTANTS Missions,     \* mission ids of the command
          Cost,         \* stamina of one of their raids
          ItemCost,     \* stamina of one item raid
          Stamina,      \* most stamina at the start
          Potions,      \* stamina potions in the inventory
          MaxIterations \* cap on item raids

VARIABLES pc,    \* "status", "raid", "stones", "item", "shop", "done"
          game,  \* the server: stamina, potions, missions raided today
          run    \* results of the hero raid, locals of the loops

vars == <<pc, game, run>>

Init == /\ pc = "status"
        /\ game \in [stamina : 0..Stamina, potions : {Potions}, raided : SUBSET Missions]
        /\ \E kind \in {"hero", "item", "daily"}, recovery, mission \in BOOLEAN :
             /\ kind = "daily" => ~recovery  \* the daily routine drinks no potion
             /\ kind # "hero" \/ mission     \* is an item mission configured?
             /\ run = [kind |-> kind, recovery |-> recovery, mission |-> mission, todo |-> Missions,
                       seen |-> {}, recovered |-> {}, result |-> [m \in Missions |-> "none"],
                       iterations |-> 0, raised |-> FALSE]

-------------------------------------------------------------------------------
(* The game. A potion gives the stamina of less than one raid or of one. *)

Raided(g, m) == IF g.stamina < Cost \/ m \in g.raided THEN g
                ELSE [g EXCEPT !.stamina = @ - Cost, !.raided = @ \union {m}]

Drunk(g) == IF g.potions = 0 THEN g ELSE [g EXCEPT !.potions = @ - 1, !.stamina = @ + 1]

ItemRaided(g) == IF g.stamina < ItemCost THEN g ELSE [g EXCEPT !.stamina = @ - ItemCost]

-------------------------------------------------------------------------------
Result(m, status) == [run EXCEPT !.todo = @ \ {m}, !.result[m] = status]

\* What has been raided today is known, or, if the read fails, taken to be nothing.
ReadStatus == /\ pc = "status" /\ run.kind # "item"
              /\ \E seen \in {game.raided} \union IF Flaky THEN {{}} ELSE {} :
                   run' = [run EXCEPT !.seen = seen]
              /\ pc' = "raid"
              /\ UNCHANGED game

GoStraightToItems == /\ pc = "status" /\ run.kind = "item"
                     /\ pc' = "item"
                     /\ UNCHANGED <<game, run>>

Turn(m) == pc = "raid" /\ m \in run.todo /\ \A k \in run.todo : m <= k

SkipRaided(m) == /\ Turn(m) /\ m \in run.seen
                 /\ run' = Result(m, "skipped")
                 /\ UNCHANGED <<pc, game>>

Raid(m) == /\ Turn(m) /\ m \notin run.seen
           /\ \E g \in Arrivals(LAMBDA x : Raided(x, m), game) :
                /\ Raided(g, m) # g
                /\ game' = Raided(g, m)
           /\ run' = Result(m, "success")
           /\ UNCHANGED pc

\* Short of stamina: give up, or drink a potion, once per mission, and try again.
StaminaShort(m) ==
    /\ Turn(m) /\ m \notin run.seen
    /\ \E g \in Arrivals(LAMBDA x : Raided(x, m), game) :
         /\ g.stamina < Cost
         /\ \/ /\ ~run.recovery \/ m \in run.recovered
               /\ game' = g
               /\ run' = Result(m, "stamina")
            \/ /\ run.recovery /\ m \notin run.recovered
               /\ \E h \in Arrivals(Drunk, g) :
                    /\ h.potions > 0
                    /\ game' = Drunk(h)
               /\ run' = [run EXCEPT !.recovered = @ \union {m}]
            \/ /\ run.recovery /\ m \notin run.recovered
               /\ game' \in Losses(Drunk, g) \union IF g.potions = 0 THEN {g} ELSE {}
               /\ run' = Result(m, "stamina")
    /\ UNCHANGED pc

AnyErrorIsLimit(m) == /\ Turn(m) /\ m \notin run.seen
                      /\ game' \in Arrivals(LAMBDA x : Raided(x, m), game)
                      /\ run' = Result(m, "limit")
                      /\ UNCHANGED pc

\* The mission's tries are used up, by an earlier run or by a lost attempt of this one.
LimitReached(m) == /\ Turn(m) /\ m \notin run.seen
                   /\ \E g \in Arrivals(LAMBDA x : Raided(x, m), game) :
                        /\ m \in g.raided /\ g.stamina >= Cost
                        /\ game' = g
                   /\ run' = Result(m, "limit")
                   /\ UNCHANGED pc

RaidFails(m) == /\ Turn(m) /\ m \notin run.seen
                /\ game' \in Losses(LAMBDA x : Raided(x, m), game)
                /\ run' = Result(m, "error")
                /\ UNCHANGED pc

\* HWAuthError, raised by any call; earlier attempts of the call may have been carried out.
Unauthorized ==
    /\ Flaky
    /\ \/ \E m \in Missions :
            /\ Turn(m) /\ m \notin run.seen
            /\ \E g \in Arrivals(LAMBDA x : Raided(x, m), game) :
                 game' \in {g} \union IF run.recovery /\ m \notin run.recovered /\ g.stamina < Cost
                                    THEN Arrivals(Drunk, g) ELSE {}
       \/ pc = "stones" /\ game' = game
       \/ pc = "item" /\ game' \in Arrivals(ItemRaided, game)
    /\ run' = [run EXCEPT !.raised = TRUE]
    /\ pc' = "done"

RaidsDone == /\ pc = "raid" /\ run.todo = {}
             /\ pc' = "stones"
             /\ UNCHANGED <<game, run>>

StonesThenItems == /\ pc = "stones"
                   /\ pc' = IF run.kind = "hero" THEN "done"
                            ELSE IF run.mission THEN "item" ELSE "shop"
                   /\ UNCHANGED <<game, run>>

\* exchange_stones, whether it works or not. A daily routine short of stamina ends here.
Stones == /\ pc = "stones"
          /\ pc' = IF run.kind = "hero" \/ \E m \in Missions : run.result[m] = "stamina" THEN "done"
                   ELSE IF run.mission THEN "item" ELSE "shop"
          /\ UNCHANGED <<game, run>>

-------------------------------------------------------------------------------
AfterItems == IF run.kind = "daily" THEN "shop" ELSE "done"

ItemRaid == /\ pc = "item" /\ run.iterations < MaxIterations
            /\ \E g \in Arrivals(ItemRaided, game) :
                 g.stamina >= ItemCost /\ game' = ItemRaided(g)
            /\ run' = [run EXCEPT !.iterations = @ + 1]
            /\ UNCHANGED pc

\* Out of stamina, at the limit, or any other failure: the first one is the last request.
ItemRaidEnds == /\ pc = "item"
                /\ \/ run.iterations = MaxIterations /\ game' = game
                   \/ \E g \in Arrivals(ItemRaided, game) : g.stamina < ItemCost /\ game' = g
                   \/ game' \in Losses(ItemRaided, game)
                /\ pc' = AfterItems
                /\ UNCHANGED run

GoShopping == /\ pc = "shop"
              /\ pc' = "done"
              /\ UNCHANGED <<game, run>>

Next == \/ ReadStatus \/ GoStraightToItems \/ RaidsDone \/ Stones \/ Unauthorized
        \/ ItemRaid \/ ItemRaidEnds \/ GoShopping
        \/ \E m \in Missions : \/ SkipRaided(m) \/ Raid(m) \/ StaminaShort(m)
                               \/ LimitReached(m) \/ RaidFails(m)

Spec == Init /\ [][Next]_vars

-------------------------------------------------------------------------------
RaidsTypeOK ==
    /\ pc \in {"status", "raid", "stones", "item", "shop", "done"}
    /\ game \in [stamina : Nat, potions : 0..Potions, raided : SUBSET Missions]
    /\ run.result \in [Missions -> {"none", "skipped", "success", "stamina", "limit", "error"}]
    /\ run.todo \subseteq Missions /\ run.seen \subseteq Missions /\ run.recovered \subseteq Missions
    /\ run.iterations \in 0..MaxIterations

\* A mission that is reported as done today, whether by this run or before it, has been
\* raided; a lost attempt may leave more raided than are reported (run_hero_raid).
ReportedRaidsAreReal ==
    \A m \in Missions : run.result[m] \in {"skipped", "success", "limit"} => m \in game.raided

\* The daily routine never spends stamina on item raids that its hero raids went short of.
HeroesComeFirst ==
    run.kind = "daily" /\ run.iterations > 0 =>
        \A m \in Missions : run.result[m] \notin {"none", "stamina"}
===============================================================================
