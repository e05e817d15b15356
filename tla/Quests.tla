--------------------------------- MODULE Quests ---------------------------------
(* `quests execute` (commands/quests.py): claim what can be claimed, carry out the *)
(* recipes of enabled quests, run the guild's recipe once a day, then the guild's  *)
(* glyph activity once a day. A cycle (day) of several runs; the two once-a-day    *)
(* guards live in the account's configuration.                                     *)
EXTENDS FiniteSets, Naturals, GameCall

CONSTANTS Daily,      \* quests of QUEST_OPERATIONS
          Recipe,     \* GUILD_QUEST_RECIPE_ID, one of them
          Guild,      \* guild quests
          Enabled,    \* daily quests that quest_defaults enables
          Steps,      \* [Daily -> Nat \ {0}], length of each recipe
          Reach,      \* the step that fulfils the quest
          Shop,       \* daily quests whose first step is shopBuy
          Excluded,   \* quests whose reward the player keeps for later
          Fallbacks,  \* candidates configured per quest
          Reruns,     \* runs of the cycle after the first
          OtherRuns      \* glyph phases that other processes carry out meanwhile

VARIABLES pc,    \* where the run is: the phases, and the calls within a target
          game,  \* server and configuration of the account, and history of the cycle:
                 \* unguarded, the works whose guard was off or whose note was not written
          run    \* the run's lists and locals

vars == <<pc, game, run>>

AllQuests == Daily \union Guild
Phases == {"fetch", "claim", "target", "step", "next", "farm", "guild", "recipe", "refetch",
           "glyph", "enchant", "done"}

\* on: are the guild's recipe and the glyph activity enabled?
Fresh(on, dry) ==
    [on |-> on, dry |-> dry, claims |-> {}, after |-> "target",
     targets |-> {}, q |-> Recipe, step |-> 0, try |-> 0, claimed |-> FALSE,
     active |-> FALSE, doneToday |-> FALSE, inDaily |-> FALSE,
     plan |-> {}, succeeded |-> {}, failures |-> {}, undetected |-> {}, raised |-> FALSE]

Runs == {Fresh(on, dry) : on \in BOOLEAN, dry \in BOOLEAN}

Init == /\ pc = "fetch"
        /\ game \in [state : [AllQuests -> {"active", "claimable"}],
                     recipeToday : {FALSE}, glyphToday : {FALSE},  \* last_recipe_at, last_run_at
                     recipes : {0}, enchanted : {0},
                     lost : {FALSE}, unguarded : {{}}, reruns : {Reruns}, others : {OtherRuns}]
        /\ run \in Runs

-------------------------------------------------------------------------------
(* The game *)

\* Step j of quest q, by whichever phase: fulfils q, and the recipe's last step is the
\* gift's drop.
Did(g, q, j) ==
    [g EXCEPT !.state[q] = IF j = Reach[q] /\ @ = "active" THEN "claimable" ELSE @,
              !.recipes = IF q = Recipe /\ j = Steps[q] THEN @ + 1 ELSE @]

Farmed(g, q) == [g EXCEPT !.state[q] = IF @ = "claimable" THEN "done" ELSE @]

Enchanted(g) == [g EXCEPT !.enchanted = @ + 1]

\* Something was carried out that the run does not hear of.
Noting(g) == [g EXCEPT !.lost = @ \/ g # game]

\* Guild quests are fulfilled by the whole guild, at any time.
GuildAdvances(q) == /\ game.state[q] = "active" /\ pc # "done"
                    /\ game' = [game EXCEPT !.state[q] = "claimable"]
                    /\ UNCHANGED <<pc, run>>

\* Another process of the player passes the same guard, or finds it off, and acts.
OtherRun == /\ game.others > 0 /\ (~game.glyphToday \/ Flaky) /\ pc # "done"
            /\ game' = [Enchanted(game) EXCEPT !.others = @ - 1, !.glyphToday = TRUE]
            /\ UNCHANGED <<pc, run>>

-------------------------------------------------------------------------------
Goto(next, r) == pc' = next /\ run' = r

\* A once-a-day guard that cannot hold: nothing to compare with, or nothing written down.
Unguarded(g, works) == [g EXCEPT !.unguarded = @ \union works]

\* update_config_merged raises after the work has been done.
WriteFails(g, work) == game' = Unguarded(g, {work}) /\ Goto("done", [run EXCEPT !.raised = TRUE])

InState(S, s) == {q \in S : game.state[q] = s}

\* _is_claim_excluded: what the player keeps is left alone.
ToClaim(S) == InState(S, "claimable") \ Excluded

\* The slots that may turn out to be sold out or unknown.
ShopProblems == SUBSET Shop

\* The purchase may be switched off.
FirstSteps(q) == IF q \in Shop THEN {1, 2} ELSE {1}

\* An answer without the time of the reset (nextDayTs, serverResetTime) disarms the guard.
Blinds == IF Flaky THEN BOOLEAN ELSE {FALSE}
GuildRanToday(blind) == ~blind /\ game.recipeToday
GlyphRanToday(blind) == ~blind /\ game.glyphToday

\* Quests are classified once.
Fetch ==
    /\ pc = "fetch"
    /\ \E blocked \in ShopProblems, blind \in Blinds :
         LET wanted == InState(Daily, "active") \intersect Enabled
             claims == ToClaim(AllQuests)
             active == run.on /\ InState(Guild, "active") # {}
         IN /\ Goto(IF run.dry THEN "glyph" ELSE "claim",
                    [run EXCEPT !.claims = claims, !.targets = wanted \ blocked, !.active = active,
                                !.plan = claims \union wanted,
                                !.failures = wanted \intersect blocked,
                                !.doneToday = active /\ GuildRanToday(blind)])
            /\ game' = Unguarded(game, IF active /\ blind THEN {"recipe"} ELSE {})

\* Reported as a failure, or, if the answer is no list of quests, as nothing at all.
FetchFails == /\ pc = "fetch" /\ Flaky
              /\ \E told \in BOOLEAN :
                   Goto("done", [run EXCEPT !.failures = IF told THEN {"questGetAll"} ELSE @])
              /\ UNCHANGED game

-------------------------------------------------------------------------------
(* Claims, of the claim phase, of a fulfilled target, or after the guild's recipe *)

Farming(q) == \/ pc = "claim" /\ q \in run.claims
              \/ pc = "farm" /\ q = run.q

AfterFarm(r, q) == Goto(IF pc = "farm" THEN "next" ELSE "claim",
                        [r EXCEPT !.claims = @ \ {q}, !.claimed = @ \/ pc = "farm"])

Claim(q) == /\ Farming(q) /\ game.state[q] = "claimable"
            /\ game' = Farmed(game, q)
            /\ AfterFarm([run EXCEPT !.succeeded = @ \union {q}], q)

ClaimFails(q) == /\ Farming(q)
                 /\ Flaky \/ game.state[q] # "claimable"
                 /\ \E g \in Arrivals(LAMBDA x : Farmed(x, q), game)
                             \union Losses(LAMBDA x : Farmed(x, q), game) : game' = Noting(g)
                 /\ AfterFarm([run EXCEPT !.failures = @ \union {q}], q)

\* HWAuthError ends the command; an earlier attempt of the call may have been carried out.
\* Raised by the claim of a quest that the recipe's last step has fulfilled, it ends it before
\* the recipe is noted.
Raises(phase) ==
    /\ pc = phase /\ Flaky
    /\ LET works == IF phase = "farm" /\ run.q = Recipe /\ run.step = Steps[Recipe]
                    THEN {"recipe"} ELSE {}
           Leaves(g) == game' = Unguarded(Noting(g), works)
       IN \/ Leaves(game)
          \/ \E q \in AllQuests :
               Farming(q) /\ \E g \in Arrivals(LAMBDA x : Farmed(x, q), game) : Leaves(g)
          \/ phase = "enchant" /\ \E g \in Arrivals(Enchanted, game) : Leaves(g)
    /\ Goto("done", [run EXCEPT !.raised = TRUE])

ClaimsDone == /\ pc = "claim" /\ run.claims = {}
              /\ Goto(run.after, run)
              /\ UNCHANGED game

-------------------------------------------------------------------------------
(* Targets, one after the other, step by step *)

Target(q) == /\ pc = "target" /\ q \in run.targets
             /\ \E first \in FirstSteps(q) :
                  Goto("step", [run EXCEPT !.targets = @ \ {q}, !.q = q, !.step = first,
                                           !.try = 0, !.claimed = FALSE])
             /\ UNCHANGED game

\* The answer lists the quests that the call changed; of those that an unanswered attempt
\* changed it may or may not.
StepDone ==
    /\ pc = "step"
    /\ \E g \in Arrivals(LAMBDA x : Did(x, run.q, run.step), game) :
         LET after == Did(g, run.q, run.step) IN
         /\ game' = [after EXCEPT !.lost = @ \/ g # game]
         /\ \E reached \in IF after.state[run.q] # "claimable" THEN {FALSE}
                           ELSE IF g.state[run.q] = "active" THEN {TRUE} ELSE BOOLEAN :
              IF ~reached \/ run.claimed THEN Goto("next", run)
              ELSE IF run.q \in Excluded THEN Goto("next", [run EXCEPT !.claimed = TRUE])
              ELSE Goto("farm", run)

\* Out of resources: the next candidate's arguments. A candidate that fails, for whatever
\* reason, makes way for the next one.
StepFallsBack == /\ pc = "step" /\ run.try < Fallbacks
                 /\ \E g \in Arrivals(LAMBDA x : Did(x, run.q, run.step), game) \union
                         IF run.try = 0 THEN {} ELSE Losses(LAMBDA x : Did(x, run.q, run.step), game) :
                      game' = Noting(g)
                 /\ Goto("step", [run EXCEPT !.try = @ + 1])

\* Declined, refused, unanswered or unauthorized: an entry in failures, and the next target.
StepFails == /\ pc = "step"
             /\ \E g \in {game} \union IF run.try \in {0, Fallbacks}
                                     THEN Losses(LAMBDA x : Did(x, run.q, run.step), game) ELSE {} :
                  game' = Noting(g)
             /\ Goto("target", [run EXCEPT !.failures = @ \union {run.q}])

\* A fulfilled quest needs no further step, except that the recipe is run to its end.
NextStep ==
    /\ pc = "next"
    /\ \/ /\ run.claimed /\ run.q # Recipe
          /\ Goto("target", run) /\ UNCHANGED game
       \/ /\ ~run.claimed \/ run.q = Recipe
          /\ run.step < Steps[run.q]
          /\ Goto("step", [run EXCEPT !.step = @ + 1, !.try = 0]) /\ UNCHANGED game
       \/ /\ ~run.claimed \/ run.q = Recipe
          /\ run.step = Steps[run.q]
          /\ \/ /\ Goto("target", [run EXCEPT !.inDaily = @ \/ run.q = Recipe,
                                              !.undetected = IF run.claimed THEN @
                                                             ELSE @ \union {run.q}])
                /\ game' = [game EXCEPT !.recipeToday = @ \/ run.q = Recipe]
             \/ run.q = Recipe /\ WriteFails(game, "recipe")

TargetsDone == /\ pc = "target" /\ run.targets = {}
               /\ Goto("guild", run)
               /\ UNCHANGED game

-------------------------------------------------------------------------------
(* The guild's recipe *)

GuildDue == run.active /\ ~run.inDaily /\ ~run.doneToday

GuildSkipped == /\ pc = "guild" /\ ~GuildDue
                /\ Goto("glyph", run)
                /\ UNCHANGED game

GuildStarts == /\ pc = "guild" /\ GuildDue
               /\ Goto("recipe", [run EXCEPT !.step = 1])
               /\ UNCHANGED game

RecipeStepUnsaved ==
    /\ pc = "recipe"
    /\ \E g \in Arrivals(LAMBDA x : Did(x, Recipe, run.step), game) :
         /\ game' = [Did(g, Recipe, run.step) EXCEPT !.lost = @ \/ g # game]
         /\ IF run.step = Steps[Recipe] THEN Goto("refetch", run)
            ELSE Goto("recipe", [run EXCEPT !.step = @ + 1])

RecipeStep ==
    /\ pc = "recipe"
    /\ \E g \in Arrivals(LAMBDA x : Did(x, Recipe, run.step), game) :
         LET after == [Did(g, Recipe, run.step) EXCEPT !.lost = @ \/ g # game]
             last == run.step = Steps[Recipe]
         IN \/ ~last /\ game' = after /\ Goto("recipe", [run EXCEPT !.step = @ + 1])
            \/ last /\ game' = [after EXCEPT !.recipeToday = TRUE] /\ Goto("refetch", run)
            \/ last /\ WriteFails(after, "recipe")

RecipeFails == /\ pc = "recipe"
               /\ \E g \in {game} \union Losses(LAMBDA x : Did(x, Recipe, run.step), game) :
                    game' = Noting(g)
               /\ Goto("glyph", [run EXCEPT !.failures = @ \union {"guild"}])

Refetch == /\ pc = "refetch"
           /\ LET reached == ToClaim(Guild) IN
              Goto("claim", [run EXCEPT !.claims = reached, !.plan = @ \union reached,
                                        !.after = "glyph"])
           /\ UNCHANGED game

RefetchFails == /\ pc = "refetch" /\ Flaky
                /\ Goto("glyph", [run EXCEPT !.failures = @ \union {"guild"}])
                /\ UNCHANGED game

-------------------------------------------------------------------------------
(* The glyph activity. activityForRuneAvailable may lag behind. *)

GlyphSkipped == /\ pc = "glyph"
                /\ ~run.on \/ game.enchanted > 0 \/ game.glyphToday \/ run.dry
                /\ Goto("done", run)
                /\ UNCHANGED game

GlyphDue == /\ pc = "glyph" /\ run.on /\ ~run.dry
            /\ \E blind \in Blinds :
                 /\ ~GlyphRanToday(blind)
                 /\ game' = Unguarded(game, IF blind THEN {"glyph"} ELSE {})
            /\ Goto("enchant", run)

GlyphFails == /\ pc = "glyph" /\ run.on /\ Flaky
              /\ Goto("done", [run EXCEPT !.failures = @ \union {"glyph"}])
              /\ UNCHANGED game

Enchant == /\ pc = "enchant"
           /\ \E g \in Arrivals(Enchanted, game) :
                LET after == [Enchanted(g) EXCEPT !.lost = @ \/ g # game] IN
                \/ /\ game' = [after EXCEPT !.glyphToday = TRUE]
                   /\ Goto("done", [run EXCEPT !.succeeded = @ \union {"glyph"}])
                \/ WriteFails(after, "glyph")

EnchantFails == /\ pc = "enchant"
                /\ \E g \in {game} \union Losses(Enchanted, game) : game' = Noting(g)
                /\ Goto("done", [run EXCEPT !.failures = @ \union {"glyph"}])

\* The player starts the command again in the same cycle.
Rerun == /\ pc = "done" /\ game.reruns > 0
         /\ pc' = "fetch" /\ run' \in Runs
         /\ game' = [game EXCEPT !.reruns = @ - 1]

Next == \/ Fetch \/ FetchFails \/ ClaimsDone \/ StepDone \/ StepFallsBack \/ StepFails \/ NextStep
        \/ TargetsDone \/ GuildSkipped \/ GuildStarts \/ RecipeStep \/ RecipeFails
        \/ Refetch \/ RefetchFails \/ GlyphSkipped \/ GlyphDue \/ GlyphFails
        \/ Enchant \/ EnchantFails \/ Rerun \/ OtherRun
        \/ \E q \in AllQuests : Claim(q) \/ ClaimFails(q)
        \/ \E q \in Daily : Target(q)
        \/ \E q \in Guild : GuildAdvances(q)
        \/ \E phase \in {"fetch", "claim", "farm", "refetch", "glyph", "enchant"} : Raises(phase)

Spec == Init /\ [][Next]_vars

-------------------------------------------------------------------------------
QuestsTypeOK ==
    /\ pc \in Phases
    /\ game \in [state : [AllQuests -> {"active", "claimable", "done"}],
                 recipeToday : BOOLEAN, glyphToday : BOOLEAN, recipes : Nat, enchanted : Nat,
                 lost : BOOLEAN, unguarded : SUBSET {"recipe", "glyph"}, reruns : 0..Reruns,
                 others : 0..OtherRuns]
    /\ run.q \in Daily /\ run.step \in Nat /\ run.try \in 0..Fallbacks
    /\ run.claims \subseteq AllQuests /\ run.targets \subseteq Daily /\ run.plan \subseteq AllQuests
    /\ run.succeeded \subseteq AllQuests \union {"glyph"} /\ run.undetected \subseteq Daily
    /\ {run.claimed, run.active, run.doneToday, run.inDaily, run.raised} \subseteq BOOLEAN

\* In one cycle the gift recipe is run to its end once, by the daily quest or by the guild
\* phase of any run, unless a call went unanswered, the server's day could not be read, or
\* the note was not written (recipe_executed_in_daily, _guild_ran_recipe_today).
RecipeOncePerCycle == game.recipes > 1 => game.lost \/ "recipe" \in game.unguarded

\* What the run reports as claimed is claimed.
ClaimedIsReal == \A q \in run.succeeded \ {"glyph"} : game.state[q] = "done"

\* The run has claimed what it set out to claim, except where no answer showed the quest
\* fulfilled or the player keeps the reward.
AllClaimed == run.plan \subseteq run.succeeded \union run.undetected \union Excluded

\* The glyph material is spent once in a cycle, although the server's flag may lag, unless a
\* call went unanswered, the time of the reset could not be read, last_run_at was not written,
\* or another process was at it at the same time.
GlyphOncePerCycle ==
    game.enchanted > 1 => game.lost \/ "glyph" \in game.unguarded \/ game.others < OtherRuns
===============================================================================
